---- MODULE Spec2Model ----
(***************************************************************************)
(* Model of src/bot.py: the per-user dialogue (button_handler and the      *)
(* three text handlers, routed by the ConversationHandler that main()      *)
(* registers), the navigation stack kept in context.user_data, the         *)
(* profiles table, and the query built by perform_search_and_reply.        *)
(***************************************************************************)
EXTENDS Integers, Sequences, FiniteSets, TLC

VARIABLES
    profiles,   \* the profiles table: user id -> row, or NoProfile
    user_data,  \* context.user_data of every user
    conv,       \* the ConversationHandler state of every user
    shown,      \* the message most recently rendered to every user
    last        \* the update handled last and what the handler did with it

vars == <<profiles, user_data, conv, shown, last>>

----------------------------------------------------------------------------
(* Bounds of the model *)

\* the back stack is not allowed to grow beyond this length
MaxStack == 5

\* the user ids of the table; user 1 is the one whose updates are handled
Users == 1..3
Actors == {1}

----------------------------------------------------------------------------
(* Values *)

\* Python None / SQL NULL of a text-valued field, and an absent user_data key
None == "None"
\* Python None / SQL NULL of an integer (the mmr column, the mmr_filter argument)
NoneInt == -1
\* no row for the user id; the fields are what the handlers read in its place
NoProfile == [exists |-> FALSE, position |-> None, mode |-> None, mmr |-> NoneInt,
              username |-> None, online |-> FALSE, full_party |-> FALSE]

END == "END"
POSITION == "POSITION"
MODE == "MODE"
MMR == "MMR"
SEARCH_MODE == "SEARCH_MODE"
SEARCH_POS_OPTION == "SEARCH_POS_OPTION"
SELECT_POSITION == "SELECT_POSITION"
SEARCH_FULL_OPTION == "SEARCH_FULL_OPTION"
SEARCH_MMR == "SEARCH_MMR"

ConvStates == {END, POSITION, MODE, MMR, SEARCH_MODE, SEARCH_POS_OPTION,
               SELECT_POSITION, SEARCH_FULL_OPTION, SEARCH_MMR}

POSITIONS == [k \in {"1", "2", "3", "4", "5"} |->
                CASE k = "1" -> "Carry"
                  [] k = "2" -> "Mid"
                  [] k = "3" -> "Offlane"
                  [] k = "4" -> "Soft Support"
                  [] k = "5" -> "Hard Support"]

GAME_MODES == <<"Turbo", "All Pick", "Single Draft", "Ranked">>

\* the account name Telegram reports for a user (from_user.username); user 3 has none
Username(u) == IF u = 3 THEN None ELSE IF u = 1 THEN "u1" ELSE "u2"

----------------------------------------------------------------------------
(* Text: a message text is a sequence of one-character strings *)

Digits == <<"0", "1", "2", "3", "4", "5", "6", "7", "8", "9">>

DigitVal(c) == CHOOSE d \in 0..9 : Digits[d + 1] = c

IsDigit(c) == \E d \in 0..9 : Digits[d + 1] = c

RECURSIVE LStrip(_)
LStrip(s) == IF s # <<>> /\ Head(s) = " " THEN LStrip(Tail(s)) ELSE s

RECURSIVE RStrip(_)
RStrip(s) == IF s # <<>> /\ s[Len(s)] = " " THEN RStrip(SubSeq(s, 1, Len(s) - 1)) ELSE s

\* str.strip()
Strip(s) == RStrip(LStrip(s))

\* str.lower(), on the letters the inputs use
LowerChar(c) ==
    CASE c = "C" -> "c" [] c = "A" -> "a" [] c = "N" -> "n"
      [] c = "E" -> "e" [] c = "L" -> "l"
      [] OTHER -> c

Lower(s) == [i \in 1..Len(s) |-> LowerChar(s[i])]

RECURSIVE DigitsValue(_)
DigitsValue(s) ==
    IF s = <<>> THEN 0
    ELSE 10 * DigitsValue(SubSeq(s, 1, Len(s) - 1)) + DigitVal(s[Len(s)])

\* int(txt): surrounding blanks and one sign are allowed, then decimal digits;
\* anything else raises ValueError (ok = FALSE)
IntOf(txt) ==
    LET s == Strip(txt)
        signed == s # <<>> /\ Head(s) \in {"+", "-"}
        body == IF signed THEN Tail(s) ELSE s
        good == body # <<>> /\ \A i \in 1..Len(body) : IsDigit(body[i])
    IN  IF ~good THEN [ok |-> FALSE, val |-> 0]
        ELSE [ok |-> TRUE,
              val |-> IF signed /\ Head(s) = "-" THEN 0 - DigitsValue(body)
                      ELSE DigitsValue(body)]

\* txt.lower() in ("отмена", "cancel")
IsCancel(txt) == Lower(txt) = <<"c", "a", "n", "c", "e", "l">>

\* the key of POSITIONS a text is, or None (pos_key not in POSITIONS)
PositionKey(txt) ==
    IF Len(txt) = 1 /\ txt[1] \in DOMAIN POSITIONS THEN txt[1] ELSE None

----------------------------------------------------------------------------
(* Profile store *)

Row(position, mode, mmr, username, online, full_party) ==
    [exists |-> TRUE, position |-> position, mode |-> mode, mmr |-> mmr,
     username |-> username, online |-> online, full_party |-> full_party]

\* get_profile: the row, or NoProfile (Python None)
get_profile(store, user_id) == store[user_id]

\* upsert_profile whose UPDATE has no WHERE clause: every row takes the fields
upsert_profile_NoWhere(store, user_id, position, mode, mmr, username, online, full_party) ==
    LET Upd(old) == [old EXCEPT
                       !.position = IF position # None THEN position ELSE @,
                       !.mode = IF mode # None THEN mode ELSE @,
                       !.mmr = IF mmr # NoneInt THEN mmr ELSE @,
                       !.username = IF username # None THEN username ELSE @,
                       !.online = IF online # None THEN online = "True" ELSE @,
                       !.full_party = IF full_party # None THEN full_party = "True" ELSE @]
    IN  IF store[user_id].exists
        THEN [v \in DOMAIN store |-> IF store[v].exists THEN Upd(store[v]) ELSE store[v]]
        ELSE [store EXCEPT ![user_id] = Row(position, mode, mmr, username, online = "True",
                                            full_party = "True")]

\* upsert_profile with the fields given; a field that is None / NoneInt
\* is not supplied.  online and full_party are "None", "True" or "False".
upsert_profile(store, user_id, position, mode, mmr, username, online, full_party) ==
    LET old == store[user_id]
        new == IF old.exists
               THEN [old EXCEPT
                       !.position = IF position # None THEN position ELSE @,
                       !.mode = IF mode # None THEN mode ELSE @,
                       !.mmr = IF mmr # NoneInt THEN mmr ELSE @,
                       !.username = IF username # None THEN username ELSE @,
                       !.online = IF online # None THEN online = "True" ELSE @,
                       !.full_party = IF full_party # None THEN full_party = "True" ELSE @]
               ELSE Row(position, mode, mmr, username, online = "True", full_party = "True")
    IN  [store EXCEPT ![user_id] = new]

----------------------------------------------------------------------------
(* Messages: a text is <<identifier, arguments>>, a keyboard is its layout   *)
(* with the two labels that depend on state                                 *)

Text(id, args) == <<id, args>>
NoText == Text("None", <<>>)

Kb(id, a, b) == [id |-> id, a |-> a, b |-> b]

OnOff(flag) == IF flag THEN "ON" ELSE "OFF"

get_main_keyboard == Kb("MAIN", "", "")
profile_edit_keyboard_dynamic(is_online, full_party) ==
    Kb("PROFILE", OnOff(is_online), OnOff(full_party))
\* the two-button row "back", "main menu" (the mmr prompt adds a second "back")
back_menu_keyboard == Kb("BACK_MENU", "", "")
mode_selection_keyboard(action_prefix) ==
    Kb(IF action_prefix = "setmode_" THEN "SETMODE" ELSE "SEARCHMODE", "", "")
search_pos_option_keyboard_dynamic(ud) ==
    Kb("POS_OPTION", OnOff(ud.exclude_position # "False"), "")
select_position_keyboard == Kb("SELECT_POS", "", "")
search_full_option_keyboard == Kb("FULL_OPTION", "", "")
search_mmr_keyboard == Kb("SEARCH_MMR", "", "")
need_position_keyboard == Kb("NEED_POS", "", "")
need_mmr_keyboard == Kb("NEED_MMR", "", "")
results_keyboard == Kb("RESULTS", "", "")

\* the callback_data tokens a layout carries, by the part before the argument
Offers(kb, p) ==
    CASE kb.id = "MAIN" -> p \in {"search_party", "my_profile"}
      [] kb.id = "PROFILE" -> p \in {"toggle_online", "toggle_fullparty", "edit_position",
                                     "edit_mode", "edit_mmr", "go_back", "main_menu"}
      [] kb.id = "BACK_MENU" -> p \in {"go_back", "main_menu"}
      [] kb.id = "SETMODE" -> p \in {"setmode_", "go_back", "main_menu"}
      [] kb.id = "SEARCHMODE" -> p \in {"mode_", "go_back", "main_menu"}
      [] kb.id = "POS_OPTION" -> p \in {"toggle_exclude_position", "start_search",
                                        "spec_position", "go_back", "main_menu"}
      [] kb.id = "SELECT_POS" -> p \in {"selectpos_", "go_back", "main_menu"}
      [] kb.id = "FULL_OPTION" -> p \in {"only_full_yes", "only_full_no", "go_back", "main_menu"}
      [] kb.id = "SEARCH_MMR" -> p \in {"mmr_none", "delta_", "go_back", "main_menu"}
      [] kb.id = "NEED_POS" -> p \in {"edit_position", "main_menu"}
      [] kb.id = "NEED_MMR" -> p \in {"edit_mmr", "main_menu"}
      [] kb.id = "RESULTS" -> p \in {"main_menu"}
      [] OTHER -> FALSE

----------------------------------------------------------------------------
(* Navigation stack and the cache of shown texts, in context.user_data *)

StepKeys == {"PROFILE", "POSITION", "MODE", "MMR", "SEARCH_MODE", "SEARCH_POS_OPTION",
             "SELECT_POSITION", "SEARCH_FULL_OPTION", "SEARCH_MMR"}

\* an empty context.user_data
EmptyUserData ==
    [back_stack |-> <<>>, search_mode |-> None, exclude_position |-> None,
     specific_position |-> None, only_full_party |-> None, own_position |-> None,
     last_text |-> [k \in StepKeys |-> NoText]]

\* push_back that loses the entry
push_back_Lost(ud, prev) == ud

push_back(ud, prev) == [ud EXCEPT !.back_stack = Append(@, prev)]

\* pop_back that reads the top entry and leaves it on the stack
pop_back_Peek(ud) ==
    IF ud.back_stack = <<>>
    THEN [val |-> None, ud |-> ud]
    ELSE [val |-> ud.back_stack[Len(ud.back_stack)], ud |-> ud]

\* the value popped (None on an empty stack) and the user_data left
pop_back(ud) ==
    IF ud.back_stack = <<>>
    THEN [val |-> None, ud |-> ud]
    ELSE [val |-> ud.back_stack[Len(ud.back_stack)],
          ud |-> [ud EXCEPT !.back_stack = SubSeq(@, 1, Len(@) - 1)]]

clear_back(ud) == [ud EXCEPT !.back_stack = <<>>]

store_last_text(ud, step, text) == [ud EXCEPT !.last_text[step] = text]

get_last_text(ud, step) == ud.last_text[step]

\* the five context.user_data.pop calls that end a search flow
pop_search_fields(ud) ==
    [ud EXCEPT !.search_mode = None, !.exclude_position = None,
               !.specific_position = None, !.only_full_party = None,
               !.own_position = None]

\* last or <default text>
LastOr(ud, step, default) ==
    IF get_last_text(ud, step) # NoText THEN get_last_text(ud, step) ELSE default

\* render_prev: the user_data left and the message rendered for the popped step
render_prev(prev, store, user_id, ud) ==
    LET profile == get_profile(store, user_id)
        main == [text |-> Text("MAIN_MENU", <<>>), kb |-> get_main_keyboard]
    IN  CASE prev = None -> [ud |-> ud, msg |-> main]
          [] prev = "MAIN_MENU" -> [ud |-> clear_back(ud), msg |-> main]
          [] prev = "PROFILE" ->
                [ud |-> ud,
                 msg |-> [text |-> LastOr(ud, "PROFILE",
                                      Text("PROFILE_FALLBACK",
                                           <<profile.position, profile.mode, profile.mmr,
                                             profile.username>>)),
                          kb |-> profile_edit_keyboard_dynamic(profile.online,
                                                               profile.full_party)]]
          [] prev = "SEARCH_MODE" ->
                [ud |-> ud,
                 msg |-> [text |-> LastOr(ud, "SEARCH_MODE", Text("SEARCH_MODE", <<>>)),
                          kb |-> mode_selection_keyboard("mode_")]]
          [] prev = "SEARCH_POS_OPTION" ->
                [ud |-> ud,
                 msg |-> [text |-> LastOr(ud, "SEARCH_POS_OPTION", Text("POS_OPTION", <<>>)),
                          kb |-> search_pos_option_keyboard_dynamic(ud)]]
          [] prev = "SELECT_POSITION" ->
                [ud |-> ud,
                 msg |-> [text |-> LastOr(ud, "SELECT_POSITION", Text("SELECT_POSITION", <<>>)),
                          kb |-> select_position_keyboard]]
          [] prev = "SEARCH_FULL_OPTION" ->
                [ud |-> ud,
                 msg |-> [text |-> LastOr(ud, "SEARCH_FULL_OPTION", Text("FULL_OPTION", <<>>)),
                          kb |-> search_full_option_keyboard]]
          [] prev = "SEARCH_MMR" ->
                [ud |-> ud,
                 msg |-> [text |-> LastOr(ud, "SEARCH_MMR", Text("MMR_OPTIONS", <<>>)),
                          kb |-> search_mmr_keyboard]]
          [] OTHER -> [ud |-> ud, msg |-> main]

----------------------------------------------------------------------------
(* perform_search_and_reply *)

SearchLimit == 30

\* SQL LOWER() of a mode name
LowerMode(m) ==
    CASE m = "Turbo" -> "turbo"
      [] m = "All Pick" -> "all pick"
      [] m = "Single Draft" -> "single draft"
      [] m = "Ranked" -> "ranked"
      [] OTHER -> m

\* the position clause with the exclusion tested before the specific position
PositionClause_ExcludeFirst(specific_position, exclude_position, requester_pos) ==
    IF exclude_position /\ requester_pos # None
    THEN [kind |-> "neq", pos |-> requester_pos]
    ELSE IF specific_position # None
         THEN [kind |-> "eq", pos |-> specific_position]
         ELSE [kind |-> "none", pos |-> None]

\* the position clause added to the query: ["eq", p], ["neq", p] or none
PositionClause(specific_position, exclude_position, requester_pos) ==
    IF specific_position # None
    THEN [kind |-> "eq", pos |-> specific_position]
    ELSE IF exclude_position /\ requester_pos # None
         THEN [kind |-> "neq", pos |-> requester_pos]
         ELSE [kind |-> "none", pos |-> None]

\* the lower bound of the mmr window
MinMmr(requester_mmr, mmr_filter) ==
    IF requester_mmr - mmr_filter > 0 THEN requester_mmr - mmr_filter ELSE 0

\* the upper bound left out of the window
MaxMmr_Exclusive(requester_mmr, mmr_filter) == requester_mmr + mmr_filter - 1

\* the upper bound of the mmr window
MaxMmr(requester_mmr, mmr_filter) == requester_mmr + mmr_filter

\* RowMatches without the clause online = 1
RowMatches_AnyOnline(row, uid, requester_id, requester_mmr, search_mode, mmr_filter, clause, only_full_party) ==
    /\ row.exists
    /\ uid # requester_id
    /\ clause.kind = "eq" => row.position # None /\ row.position = clause.pos
    /\ clause.kind = "neq" => row.position = None \/ row.position # clause.pos
    /\ search_mode # None => row.mode # None /\ LowerMode(row.mode) = LowerMode(search_mode)
    /\ only_full_party => row.full_party
    /\ mmr_filter # NoneInt =>
          /\ row.mmr # NoneInt
          /\ row.mmr >= (IF requester_mmr - mmr_filter > 0 THEN requester_mmr - mmr_filter ELSE 0)
          /\ row.mmr <= requester_mmr + mmr_filter

\* RowMatches with the exclusion written position != ?, which no NULL passes
RowMatches_NullExcluded(row, uid, requester_id, requester_mmr, search_mode, mmr_filter, clause, only_full_party) ==
    /\ row.exists
    /\ uid # requester_id
    /\ row.online
    /\ clause.kind = "eq" => row.position # None /\ row.position = clause.pos
    /\ clause.kind = "neq" => row.position # None /\ row.position # clause.pos
    /\ search_mode # None => row.mode # None /\ LowerMode(row.mode) = LowerMode(search_mode)
    /\ only_full_party => row.full_party
    /\ mmr_filter # NoneInt =>
          /\ row.mmr # NoneInt
          /\ row.mmr >= MinMmr(requester_mmr, mmr_filter)
          /\ row.mmr <= MaxMmr(requester_mmr, mmr_filter)

\* the WHERE clause, on the row of user uid
RowMatches(row, uid, requester_id, requester_mmr, search_mode, mmr_filter, clause, only_full_party) ==
    /\ row.exists
    /\ uid # requester_id
    /\ row.online
    /\ clause.kind = "eq" => row.position # None /\ row.position = clause.pos
    /\ clause.kind = "neq" => row.position = None \/ row.position # clause.pos
    /\ search_mode # None => row.mode # None /\ LowerMode(row.mode) = LowerMode(search_mode)
    /\ only_full_party => row.full_party
    /\ mmr_filter # NoneInt =>
          /\ row.mmr # NoneInt
          /\ row.mmr >= MinMmr(requester_mmr, mmr_filter)
          /\ row.mmr <= MaxMmr(requester_mmr, mmr_filter)

RECURSIVE Ascending(_)
Ascending(S) ==
    IF S = {} THEN <<>>
    ELSE LET m == CHOOSE x \in S : \A y \in S : x <= y
         IN  <<m>> \o Ascending(S \ {m})

\* the columns the query selects
Selected(store, uid) ==
    [user_id |-> uid, position |-> store[uid].position, mode |-> store[uid].mode,
     mmr |-> store[uid].mmr, username |-> store[uid].username,
     full_party |-> store[uid].full_party]

\* QueryRows without LIMIT 30
QueryRows_Uncapped(store, requester_id, search_mode, mmr_filter, exclude_position, specific_position, only_full_party) ==
    LET requester_profile == get_profile(store, requester_id)
        clause == PositionClause(specific_position, exclude_position,
                                 requester_profile.position)
        ids == Ascending({uid \in DOMAIN store :
                            RowMatches(store[uid], uid, requester_id, requester_profile.mmr,
                                       search_mode, mmr_filter, clause, only_full_party)})
    IN  [i \in 1..Len(ids) |-> Selected(store, ids[i])]

\* the rows the query returns: the matching rows in table order, LIMIT 30
QueryRows(store, requester_id, search_mode, mmr_filter, exclude_position, specific_position, only_full_party) ==
    LET requester_profile == get_profile(store, requester_id)
        clause == PositionClause(specific_position, exclude_position,
                                 requester_profile.position)
        ids == Ascending({uid \in DOMAIN store :
                            RowMatches(store[uid], uid, requester_id, requester_profile.mmr,
                                       search_mode, mmr_filter, clause, only_full_party)})
        n == IF Len(ids) > SearchLimit THEN SearchLimit ELSE Len(ids)
    IN  [i \in 1..n |-> Selected(store, ids[i])]

\* perform_search_and_reply: the outcome, the rows and the message rendered;
\* db_error is the sqlite call raising
perform_search_and_reply(store, requester_id, search_mode, mmr_filter, exclude_position, specific_position, only_full_party, db_error) ==
    LET requester_profile == get_profile(store, requester_id)
        rows == QueryRows(store, requester_id, search_mode, mmr_filter, exclude_position,
                          specific_position, only_full_party)
    IN  IF db_error
        THEN [out |-> "search_error", rows |-> <<>>,
              msg |-> [text |-> Text("SEARCH_ERROR", <<>>), kb |-> get_main_keyboard]]
        ELSE IF mmr_filter # NoneInt /\ requester_profile.mmr = NoneInt
        THEN [out |-> "mmr_missing", rows |-> <<>>,
              msg |-> [text |-> Text("NEED_MMR_IN_PROFILE", <<>>), kb |-> get_main_keyboard]]
        ELSE IF rows = <<>>
        THEN [out |-> "no_matches", rows |-> <<>>,
              msg |-> [text |-> Text("NO_MATCHES", <<>>), kb |-> get_main_keyboard]]
        ELSE [out |-> "results", rows |-> rows,
              msg |-> [text |-> Text("RESULTS", [i \in 1..Len(rows) |-> rows[i].user_id]),
                       kb |-> results_keyboard]]

----------------------------------------------------------------------------
(* Updates and their routing *)

\* callback_data: p is the token, or its prefix when it carries an argument s
Tok(p) == [p |-> p, s |-> <<>>]
TokArg(p, s) == [p |-> p, s |-> s]

StartsWith(data, prefix) == data.p = prefix

Chars_custom == <<"c", "u", "s", "t", "o", "m">>

\* the branch of button_handler's if-chain that handles a token, in source order
Branch(data) ==
    IF data.p = "go_back" THEN "go_back"
    ELSE IF data.p = "main_menu" THEN "main_menu"
    ELSE IF data.p = "my_profile" THEN "my_profile"
    ELSE IF data.p = "toggle_online" THEN "toggle_online"
    ELSE IF data.p = "toggle_fullparty" THEN "toggle_fullparty"
    ELSE IF data.p = "edit_position" THEN "edit_position"
    ELSE IF data.p = "edit_mode" THEN "edit_mode"
    ELSE IF data.p = "edit_mmr" THEN "edit_mmr"
    ELSE IF StartsWith(data, "setmode_") THEN "setmode_"
    ELSE IF data.p = "search_party" THEN "search_party"
    ELSE IF StartsWith(data, "mode_") THEN "mode_"
    ELSE IF data.p = "toggle_exclude_position" THEN "toggle_exclude_position"
    ELSE IF data.p = "start_search" THEN "start_search"
    ELSE IF data.p = "spec_position" THEN "spec_position"
    ELSE IF StartsWith(data, "selectpos_") THEN "selectpos_"
    ELSE IF data.p = "only_full_yes" THEN "only_full_yes"
    ELSE IF data.p = "only_full_no" THEN "only_full_no"
    ELSE IF data.p = "mmr_none" THEN "mmr_none"
    ELSE IF StartsWith(data, "delta_") THEN "delta_"
    ELSE IF data.p = "delta_" /\ data.s = Chars_custom THEN "delta_custom"
    ELSE "none"

\* the update a handler ran for last, with the outcome and the rows of its search
Ev(u, kind, data, out, rows) ==
    [user |-> u, kind |-> kind, data |-> data, out |-> out, rows |-> rows]

\* a callback query with this token can arrive: the layout shown carries it
Pressed(u, data) == Offers(shown[u].kb, data.p)

\* what a handler leaves: user_data, conversation state, message, table, event
Handled(u, ud, state, msg, store, ev) ==
    /\ user_data' = [user_data EXCEPT ![u] = ud]
    /\ conv' = [conv EXCEPT ![u] = state]
    /\ shown' = [shown EXCEPT ![u] = msg]
    /\ profiles' = store
    /\ last' = ev

MainMenuMsg == [text |-> Text("MAIN_MENU", <<>>), kb |-> get_main_keyboard]

\* the arguments the search triggers read from user_data
ExcludeArg(ud) == ud.exclude_position # "False"
OnlyFullArg(ud) == ud.only_full_party = "True"

----------------------------------------------------------------------------
(* start *)

Start(u) ==
    Handled(u, clear_back(user_data[u]), conv[u],
            [text |-> Text("START", <<>>), kb |-> get_main_keyboard],
            profiles, Ev(u, "start", Tok("/start"), "start", <<>>))

----------------------------------------------------------------------------
(* button_handler, one action for every branch *)

GoBack(u) ==
    LET data == Tok("go_back")
        popped == pop_back(user_data[u])
        r == render_prev(popped.val, profiles, u, popped.ud)
    IN  /\ Pressed(u, data) /\ Branch(data) = "go_back"
        /\ Handled(u, r.ud, END, r.msg, profiles, Ev(u, "button", data, "back", <<>>))

\* the main menu branch without the five pops
MainMenu_KeepsFields(u) ==
    LET data == Tok("main_menu")
    IN  /\ Pressed(u, data) /\ Branch(data) = "main_menu"
        /\ Handled(u, clear_back(user_data[u]), END, MainMenuMsg,
                   profiles, Ev(u, "button", data, "main_menu", <<>>))

MainMenu(u) ==
    LET data == Tok("main_menu")
    IN  /\ Pressed(u, data) /\ Branch(data) = "main_menu"
        /\ Handled(u, pop_search_fields(clear_back(user_data[u])), END, MainMenuMsg,
                   profiles, Ev(u, "button", data, "main_menu", <<>>))

MyProfile(u) ==
    LET data == Tok("my_profile")
        profile == get_profile(profiles, u)
        text == Text("PROFILE_VIEW",
                     <<profile.position, profile.mode, profile.mmr, profile.username>>)
    IN  /\ Pressed(u, data) /\ Branch(data) = "my_profile"
        /\ Handled(u, store_last_text(user_data[u], "PROFILE", text), END,
                   [text |-> text,
                    kb |-> profile_edit_keyboard_dynamic(profile.online, profile.full_party)],
                   profiles, Ev(u, "button", data, "profile", <<>>))

\* the online toggle whose failed write is stored all the same
ToggleOnline_WritesAnyway(u, db_error) ==
    LET data == Tok("toggle_online")
        new_online == ~get_profile(profiles, u).online
        store == upsert_profile(profiles, u, None, None, NoneInt, Username(u),
                                IF new_online THEN "True" ELSE "False", None)
        text == Text(IF new_online THEN "ONLINE_ON" ELSE "ONLINE_OFF", <<>>)
    IN  /\ Pressed(u, data) /\ Branch(data) = "toggle_online"
        /\ IF db_error
           THEN Handled(u, user_data[u], END,
                        [text |-> Text("TOGGLE_ONLINE_ERROR", <<>>), kb |-> get_main_keyboard],
                        store, Ev(u, "button", data, "store_error", <<>>))
           ELSE Handled(u, store_last_text(user_data[u], "PROFILE", text), END,
                        [text |-> text,
                         kb |-> profile_edit_keyboard_dynamic(
                                    new_online, get_profile(store, u).full_party)],
                        store, Ev(u, "button", data, "toggled", <<>>))

ToggleOnline(u, db_error) ==
    LET data == Tok("toggle_online")
        new_online == ~get_profile(profiles, u).online
        store == upsert_profile(profiles, u, None, None, NoneInt, Username(u),
                                IF new_online THEN "True" ELSE "False", None)
        text == Text(IF new_online THEN "ONLINE_ON" ELSE "ONLINE_OFF", <<>>)
    IN  /\ Pressed(u, data) /\ Branch(data) = "toggle_online"
        /\ IF db_error
           THEN Handled(u, user_data[u], END,
                        [text |-> Text("TOGGLE_ONLINE_ERROR", <<>>), kb |-> get_main_keyboard],
                        profiles, Ev(u, "button", data, "store_error", <<>>))
           ELSE Handled(u, store_last_text(user_data[u], "PROFILE", text), END,
                        [text |-> text,
                         kb |-> profile_edit_keyboard_dynamic(
                                    new_online, get_profile(store, u).full_party)],
                        store, Ev(u, "button", data, "toggled", <<>>))

\* the full-party toggle that writes the online flag as well
ToggleFullparty_ResetsOnline(u, db_error) ==
    LET data == Tok("toggle_fullparty")
        new == ~get_profile(profiles, u).full_party
        store == upsert_profile(profiles, u, None, None, NoneInt, Username(u),
                                "False", IF new THEN "True" ELSE "False")
        text == Text(IF new THEN "FULL_ON" ELSE "FULL_OFF", <<>>)
    IN  /\ Pressed(u, data) /\ Branch(data) = "toggle_fullparty"
        /\ IF db_error
           THEN Handled(u, user_data[u], END,
                        [text |-> Text("TOGGLE_FULL_ERROR", <<>>), kb |-> get_main_keyboard],
                        profiles, Ev(u, "button", data, "store_error", <<>>))
           ELSE Handled(u, store_last_text(user_data[u], "PROFILE", text), END,
                        [text |-> text,
                         kb |-> profile_edit_keyboard_dynamic(
                                    get_profile(store, u).online, new)],
                        store, Ev(u, "button", data, "toggled", <<>>))

ToggleFullparty(u, db_error) ==
    LET data == Tok("toggle_fullparty")
        new == ~get_profile(profiles, u).full_party
        store == upsert_profile(profiles, u, None, None, NoneInt, Username(u),
                                None, IF new THEN "True" ELSE "False")
        text == Text(IF new THEN "FULL_ON" ELSE "FULL_OFF", <<>>)
    IN  /\ Pressed(u, data) /\ Branch(data) = "toggle_fullparty"
        /\ IF db_error
           THEN Handled(u, user_data[u], END,
                        [text |-> Text("TOGGLE_FULL_ERROR", <<>>), kb |-> get_main_keyboard],
                        profiles, Ev(u, "button", data, "store_error", <<>>))
           ELSE Handled(u, store_last_text(user_data[u], "PROFILE", text), END,
                        [text |-> text,
                         kb |-> profile_edit_keyboard_dynamic(
                                    get_profile(store, u).online, new)],
                        store, Ev(u, "button", data, "toggled", <<>>))

\* edit_position, edit_mode, edit_mmr: push PROFILE and show the prompt
EditField(u, token, step, state, kb) ==
    LET data == Tok(token)
        text == Text(step \o "_PROMPT", <<>>)
    IN  /\ Pressed(u, data) /\ Branch(data) = token
        /\ Len(user_data[u].back_stack) < MaxStack
        /\ Handled(u, store_last_text(push_back(user_data[u], "PROFILE"), step, text),
                   state, [text |-> text, kb |-> kb], profiles,
                   Ev(u, "button", data, "prompt", <<>>))

EditPosition(u) == EditField(u, "edit_position", "POSITION", POSITION, back_menu_keyboard)

EditMode(u) == EditField(u, "edit_mode", "MODE", MODE, mode_selection_keyboard("setmode_"))

EditMmr(u) == EditField(u, "edit_mmr", "MMR", MMR, back_menu_keyboard)

SetMode(u, mode_name, db_error) ==
    LET data == TokArg("setmode_", mode_name)
        store == upsert_profile(profiles, u, None, mode_name, NoneInt, Username(u), None, None)
        profile == get_profile(store, u)
        text == Text("MODE_SAVED", <<mode_name>>)
    IN  /\ Pressed(u, data) /\ Branch(data) = "setmode_"
        /\ IF db_error
           THEN Handled(u, user_data[u], END,
                        [text |-> Text("MODE_SAVE_ERROR", <<>>), kb |-> get_main_keyboard],
                        profiles, Ev(u, "button", data, "store_error", <<>>))
           ELSE Handled(u, store_last_text(user_data[u], "PROFILE", text), END,
                        [text |-> text,
                         kb |-> profile_edit_keyboard_dynamic(profile.online,
                                                              profile.full_party)],
                        store, Ev(u, "button", data, "saved", <<>>))

\* dict.setdefault("exclude_position", True)
setdefault_exclude(ud) ==
    [ud EXCEPT !.exclude_position = IF @ = None THEN "True" ELSE @]

\* the search branch without the test of the profile's position
SearchParty_NoCheck(u) ==
    LET data == Tok("search_party")
        profile == get_profile(profiles, u)
        text == Text("SEARCH_MODE", <<>>)
        ud1 == setdefault_exclude([user_data[u] EXCEPT !.own_position = profile.position])
        ud2 == [ud1 EXCEPT !.specific_position = None, !.only_full_party = None]
        ud3 == store_last_text(push_back(clear_back(ud2), "MAIN_MENU"), "SEARCH_MODE", text)
    IN  /\ Pressed(u, data) /\ Branch(data) = "search_party"
        /\ Handled(u, ud3, SEARCH_MODE,
                   [text |-> text, kb |-> mode_selection_keyboard("mode_")],
                   profiles, Ev(u, "button", data, "prompt", <<>>))

SearchParty(u) ==
    LET data == Tok("search_party")
        profile == get_profile(profiles, u)
        text == Text("SEARCH_MODE", <<>>)
        ud1 == setdefault_exclude([user_data[u] EXCEPT !.own_position = profile.position])
        ud2 == [ud1 EXCEPT !.specific_position = None, !.only_full_party = None]
        ud3 == store_last_text(push_back(clear_back(ud2), "MAIN_MENU"), "SEARCH_MODE", text)
    IN  /\ Pressed(u, data) /\ Branch(data) = "search_party"
        /\ IF ~profile.exists \/ profile.position = None
           THEN Handled(u, user_data[u], END,
                        [text |-> Text("NEED_POSITION", <<>>), kb |-> need_position_keyboard],
                        profiles, Ev(u, "button", data, "need_position", <<>>))
           ELSE Handled(u, ud3, SEARCH_MODE,
                        [text |-> text, kb |-> mode_selection_keyboard("mode_")],
                        profiles, Ev(u, "button", data, "prompt", <<>>))

ModeChosen(u, mode_name) ==
    LET data == TokArg("mode_", mode_name)
        text == Text("POS_OPTION", <<>>)
        ud1 == push_back(user_data[u], "SEARCH_MODE")
        ud2 == setdefault_exclude([ud1 EXCEPT !.search_mode = mode_name])
        ud3 == store_last_text(ud2, "SEARCH_POS_OPTION", text)
    IN  /\ Pressed(u, data) /\ Branch(data) = "mode_"
        /\ IF user_data[u].own_position = None
           THEN Handled(u, user_data[u], END,
                        [text |-> Text("NEED_POSITION_FIRST", <<>>), kb |-> get_main_keyboard],
                        profiles, Ev(u, "button", data, "need_position", <<>>))
           ELSE /\ Len(user_data[u].back_stack) < MaxStack
                /\ Handled(u, ud3, SEARCH_POS_OPTION,
                           [text |-> text, kb |-> search_pos_option_keyboard_dynamic(ud3)],
                           profiles, Ev(u, "button", data, "prompt", <<>>))

\* the toggle treated as a forward transition: it pushes the step
ToggleExclude_Pushes(u) ==
    LET data == Tok("toggle_exclude_position")
        cur == user_data[u].exclude_position
        new == ~(IF cur # None THEN cur = "True" ELSE TRUE)
        text == Text("POS_ACTION", <<>>)
        ud1 == [user_data[u] EXCEPT !.exclude_position = IF new THEN "True" ELSE "False"]
        ud2 == store_last_text(push_back(ud1, "SEARCH_POS_OPTION"), "SEARCH_POS_OPTION", text)
    IN  /\ Pressed(u, data) /\ Branch(data) = "toggle_exclude_position"
        /\ Len(user_data[u].back_stack) < MaxStack
        /\ Handled(u, ud2, END,
                   [text |-> text, kb |-> search_pos_option_keyboard_dynamic(ud2)],
                   profiles, Ev(u, "button", data, "toggled", <<>>))

\* the toggle that switches the exclusion off whatever it was
ToggleExclude_SwitchesOff(u) ==
    LET data == Tok("toggle_exclude_position")
        text == Text("POS_ACTION", <<>>)
        ud1 == [user_data[u] EXCEPT !.exclude_position = "False"]
        ud2 == store_last_text(ud1, "SEARCH_POS_OPTION", text)
    IN  /\ Pressed(u, data) /\ Branch(data) = "toggle_exclude_position"
        /\ Handled(u, ud2, END,
                   [text |-> text, kb |-> search_pos_option_keyboard_dynamic(ud2)],
                   profiles, Ev(u, "button", data, "toggled", <<>>))

ToggleExclude(u) ==
    LET data == Tok("toggle_exclude_position")
        cur == user_data[u].exclude_position
        new == ~(IF cur # None THEN cur = "True" ELSE TRUE)
        text == Text("POS_ACTION", <<>>)
        ud1 == [user_data[u] EXCEPT !.exclude_position = IF new THEN "True" ELSE "False"]
        ud2 == store_last_text(ud1, "SEARCH_POS_OPTION", text)
    IN  /\ Pressed(u, data) /\ Branch(data) = "toggle_exclude_position"
        /\ Handled(u, ud2, END,
                   [text |-> text, kb |-> search_pos_option_keyboard_dynamic(ud2)],
                   profiles, Ev(u, "button", data, "toggled", <<>>))

StartSearch(u) ==
    LET data == Tok("start_search")
        text == Text("FULL_OPTION", <<>>)
    IN  /\ Pressed(u, data) /\ Branch(data) = "start_search"
        /\ Len(user_data[u].back_stack) < MaxStack
        /\ Handled(u, store_last_text(push_back(user_data[u], "SEARCH_POS_OPTION"),
                                      "SEARCH_FULL_OPTION", text),
                   SEARCH_FULL_OPTION, [text |-> text, kb |-> search_full_option_keyboard],
                   profiles, Ev(u, "button", data, "prompt", <<>>))

SpecPosition(u) ==
    LET data == Tok("spec_position")
        text == Text("SELECT_POSITION", <<>>)
    IN  /\ Pressed(u, data) /\ Branch(data) = "spec_position"
        /\ Len(user_data[u].back_stack) < MaxStack
        /\ Handled(u, store_last_text(push_back(user_data[u], "SEARCH_POS_OPTION"),
                                      "SELECT_POSITION", text),
                   SELECT_POSITION, [text |-> text, kb |-> select_position_keyboard],
                   profiles, Ev(u, "button", data, "prompt", <<>>))

SelectPos(u, key) ==
    LET data == TokArg("selectpos_", key)
        text == Text("FULL_OPTION", <<>>)
        ud1 == [user_data[u] EXCEPT !.specific_position = POSITIONS[key],
                                    !.exclude_position = None]
        ud2 == store_last_text(push_back(ud1, "SELECT_POSITION"), "SEARCH_FULL_OPTION", text)
    IN  /\ Pressed(u, data) /\ Branch(data) = "selectpos_"
        /\ IF key \notin DOMAIN POSITIONS
           THEN Handled(u, user_data[u], END,
                        [text |-> Text("BAD_POSITION", <<>>), kb |-> get_main_keyboard],
                        profiles, Ev(u, "button", data, "bad_position", <<>>))
           ELSE /\ Len(user_data[u].back_stack) < MaxStack
                /\ Handled(u, ud2, SEARCH_FULL_OPTION,
                           [text |-> text, kb |-> search_full_option_keyboard],
                           profiles, Ev(u, "button", data, "prompt", <<>>))

\* only_full_yes, only_full_no
OnlyFull(u, yes) ==
    LET data == Tok(IF yes THEN "only_full_yes" ELSE "only_full_no")
        ud1 == [user_data[u] EXCEPT !.only_full_party = IF yes THEN "True" ELSE "False"]
        ud2 == store_last_text(push_back(ud1, "SEARCH_FULL_OPTION"), "SEARCH_MMR",
                               Text("MMR_OPTIONS", <<>>))
    IN  /\ Pressed(u, data) /\ Branch(data) = data.p
        /\ Len(user_data[u].back_stack) < MaxStack
        /\ Handled(u, ud2, SEARCH_MMR,
                   [text |-> Text(IF yes THEN "MMR_OPTIONS_ONLY_FULL" ELSE "MMR_OPTIONS_ANY",
                                  <<>>),
                    kb |-> search_mmr_keyboard],
                   profiles, Ev(u, "button", data, "prompt", <<>>))

\* RunSearch without the final clear_back
RunSearch_KeepsStack(u, kind, data, mmr_filter, db_error) ==
    LET ud == user_data[u]
        r == perform_search_and_reply(profiles, u, ud.search_mode, mmr_filter,
                                      ud.exclude_position # "False", ud.specific_position,
                                      ud.only_full_party = "True", db_error)
    IN  Handled(u, pop_search_fields(ud), END, r.msg, profiles,
                Ev(u, kind, data, r.out, r.rows))

\* what a search trigger does once the requester's mmr is known to suffice:
\* perform_search_and_reply, then the five pops and clear_back
RunSearch(u, kind, data, mmr_filter, db_error) ==
    LET ud == user_data[u]
        r == perform_search_and_reply(profiles, u, ud.search_mode, mmr_filter, ExcludeArg(ud),
                                      ud.specific_position, OnlyFullArg(ud), db_error)
    IN  Handled(u, clear_back(pop_search_fields(ud)), END, r.msg, profiles,
                Ev(u, kind, data, r.out, r.rows))

\* the missing mmr reported as an empty result
NeedMmr_NoMatches(u, kind, data) ==
    Handled(u, user_data[u], END,
            [text |-> Text("NO_MATCHES", <<>>), kb |-> get_main_keyboard],
            profiles, Ev(u, kind, data, "no_matches", <<>>))

\* "mmr unavailable": the requester has no mmr stored
NeedMmr(u, kind, data) ==
    Handled(u, user_data[u], END,
            [text |-> Text("NEED_MMR", <<>>), kb |-> need_mmr_keyboard],
            profiles, Ev(u, kind, data, "need_mmr", <<>>))

\* the handler raised: nothing is rendered, the conversation state is kept
Raised(u, kind, data) ==
    /\ UNCHANGED <<profiles, user_data, conv, shown>>
    /\ last' = Ev(u, kind, data, "exception", <<>>)

MmrNone(u, db_error) ==
    LET data == Tok("mmr_none")
    IN  /\ Pressed(u, data) /\ Branch(data) = "mmr_none"
        /\ RunSearch(u, "button", data, NoneInt, db_error)

\* a token delta_<s>: the branch for "delta_" precedes the one for "delta_custom"
Delta(u, s, db_error) ==
    LET data == TokArg("delta_", s)
        delta == IntOf(s)
        text == Text("CUSTOM_DELTA_PROMPT", <<>>)
    IN  /\ Pressed(u, data)
        /\ CASE Branch(data) = "delta_" ->
                    IF ~delta.ok
                    THEN Raised(u, "button", data)
                    ELSE IF get_profile(profiles, u).mmr = NoneInt
                    THEN NeedMmr(u, "button", data)
                    ELSE RunSearch(u, "button", data, delta.val, db_error)
             [] Branch(data) = "delta_custom" ->
                    /\ Len(user_data[u].back_stack) < MaxStack
                    /\ Handled(u, store_last_text(push_back(user_data[u], "SEARCH_MMR"),
                                                  "SEARCH_MMR", text),
                               SEARCH_MMR, [text |-> text, kb |-> back_menu_keyboard],
                               profiles, Ev(u, "button", data, "prompt", <<>>))

----------------------------------------------------------------------------
(* The text handlers; main() routes a text to one by the conversation state *)

TextData(txt) == TokArg("", txt)

\* get_position that ends the conversation on a text it rejects
get_position_InvalidEnds(u, txt, db_error) ==
    LET data == TextData(txt)
        t == Strip(txt)
        popped == pop_back(user_data[u])
        r == render_prev(popped.val, profiles, u, popped.ud)
        pos_key == PositionKey(t)
        store == upsert_profile(profiles, u, POSITIONS[pos_key], None, NoneInt,
                                Username(u), None, None)
    IN  /\ conv[u] = POSITION
        /\ IF IsCancel(t)
           THEN Handled(u, r.ud, END, r.msg, profiles, Ev(u, "text", data, "back", <<>>))
           ELSE IF pos_key = None
           THEN Handled(u, user_data[u], END,
                        [text |-> Text("POSITION_INVALID", <<>>), kb |-> back_menu_keyboard],
                        profiles, Ev(u, "text", data, "invalid", <<>>))
           ELSE IF db_error
           THEN Handled(u, user_data[u], END,
                        [text |-> Text("SAVE_ERROR", <<>>), kb |-> get_main_keyboard],
                        profiles, Ev(u, "text", data, "store_error", <<>>))
           ELSE Handled(u, user_data[u], END,
                        [text |-> Text("POSITION_SAVED", <<POSITIONS[pos_key]>>),
                         kb |-> get_main_keyboard],
                        store, Ev(u, "text", data, "saved", <<>>))

get_position(u, txt, db_error) ==
    LET data == TextData(txt)
        t == Strip(txt)
        popped == pop_back(user_data[u])
        r == render_prev(popped.val, profiles, u, popped.ud)
        pos_key == PositionKey(t)
        store == upsert_profile(profiles, u, POSITIONS[pos_key], None, NoneInt,
                                Username(u), None, None)
    IN  /\ conv[u] = POSITION
        /\ IF IsCancel(t)
           THEN Handled(u, r.ud, END, r.msg, profiles, Ev(u, "text", data, "back", <<>>))
           ELSE IF pos_key = None
           THEN Handled(u, user_data[u], POSITION,
                        [text |-> Text("POSITION_INVALID", <<>>), kb |-> back_menu_keyboard],
                        profiles, Ev(u, "text", data, "invalid", <<>>))
           ELSE IF db_error
           THEN Handled(u, user_data[u], END,
                        [text |-> Text("SAVE_ERROR", <<>>), kb |-> get_main_keyboard],
                        profiles, Ev(u, "text", data, "store_error", <<>>))
           ELSE Handled(u, user_data[u], END,
                        [text |-> Text("POSITION_SAVED", <<POSITIONS[pos_key]>>),
                         kb |-> get_main_keyboard],
                        store, Ev(u, "text", data, "saved", <<>>))

\* get_mmr without the upper bound of the range
get_mmr_NoUpperBound(u, txt, db_error) ==
    LET data == TextData(txt)
        t == Strip(txt)
        popped == pop_back(user_data[u])
        r == render_prev(popped.val, profiles, u, popped.ud)
        mmr == IntOf(t)
        store == upsert_profile(profiles, u, None, None, mmr.val, Username(u), None, None)
    IN  /\ conv[u] = MMR
        /\ IF IsCancel(t)
           THEN Handled(u, r.ud, END, r.msg, profiles, Ev(u, "text", data, "back", <<>>))
           ELSE IF ~mmr.ok \/ mmr.val < 0
           THEN Handled(u, user_data[u], MMR,
                        [text |-> Text("MMR_INVALID", <<>>), kb |-> back_menu_keyboard],
                        profiles, Ev(u, "text", data, "invalid", <<>>))
           ELSE IF db_error
           THEN Handled(u, user_data[u], END,
                        [text |-> Text("SAVE_ERROR", <<>>), kb |-> get_main_keyboard],
                        profiles, Ev(u, "text", data, "store_error", <<>>))
           ELSE Handled(u, user_data[u], END,
                        [text |-> Text("MMR_SAVED", <<>>), kb |-> get_main_keyboard],
                        store, Ev(u, "text", data, "saved", <<>>))

get_mmr(u, txt, db_error) ==
    LET data == TextData(txt)
        t == Strip(txt)
        popped == pop_back(user_data[u])
        r == render_prev(popped.val, profiles, u, popped.ud)
        mmr == IntOf(t)
        store == upsert_profile(profiles, u, None, None, mmr.val, Username(u), None, None)
    IN  /\ conv[u] = MMR
        /\ IF IsCancel(t)
           THEN Handled(u, r.ud, END, r.msg, profiles, Ev(u, "text", data, "back", <<>>))
           ELSE IF ~mmr.ok \/ mmr.val < 0 \/ mmr.val > 15000
           THEN Handled(u, user_data[u], MMR,
                        [text |-> Text("MMR_INVALID", <<>>), kb |-> back_menu_keyboard],
                        profiles, Ev(u, "text", data, "invalid", <<>>))
           ELSE IF db_error
           THEN Handled(u, user_data[u], END,
                        [text |-> Text("SAVE_ERROR", <<>>), kb |-> get_main_keyboard],
                        profiles, Ev(u, "text", data, "store_error", <<>>))
           ELSE Handled(u, user_data[u], END,
                        [text |-> Text("MMR_SAVED", <<>>), kb |-> get_main_keyboard],
                        store, Ev(u, "text", data, "saved", <<>>))

\* get_search_mmr_custom that takes 0 for a delta
get_search_mmr_custom_AcceptsZero(u, txt, db_error) ==
    LET data == TextData(txt)
        t == Strip(txt)
        popped == pop_back(user_data[u])
        r == render_prev(popped.val, profiles, u, popped.ud)
        delta == IntOf(t)
    IN  /\ conv[u] = SEARCH_MMR
        /\ IF IsCancel(t)
           THEN Handled(u, r.ud, END, r.msg, profiles, Ev(u, "text", data, "back", <<>>))
           ELSE IF ~delta.ok \/ delta.val < 0
           THEN Handled(u, user_data[u], SEARCH_MMR,
                        [text |-> Text("DELTA_INVALID", <<>>), kb |-> back_menu_keyboard],
                        profiles, Ev(u, "text", data, "invalid", <<>>))
           ELSE IF get_profile(profiles, u).mmr = NoneInt
           THEN NeedMmr(u, "text", data)
           ELSE RunSearch(u, "text", data, delta.val, db_error)

get_search_mmr_custom(u, txt, db_error) ==
    LET data == TextData(txt)
        t == Strip(txt)
        popped == pop_back(user_data[u])
        r == render_prev(popped.val, profiles, u, popped.ud)
        delta == IntOf(t)
    IN  /\ conv[u] = SEARCH_MMR
        /\ IF IsCancel(t)
           THEN Handled(u, r.ud, END, r.msg, profiles, Ev(u, "text", data, "back", <<>>))
           ELSE IF ~delta.ok \/ delta.val <= 0
           THEN Handled(u, user_data[u], SEARCH_MMR,
                        [text |-> Text("DELTA_INVALID", <<>>), kb |-> back_menu_keyboard],
                        profiles, Ev(u, "text", data, "invalid", <<>>))
           ELSE IF get_profile(profiles, u).mmr = NoneInt
           THEN NeedMmr(u, "text", data)
           ELSE RunSearch(u, "text", data, delta.val, db_error)

\* the states whose handler list holds a MessageHandler
TextStates == {POSITION, MMR, SEARCH_MMR}

\* a text in any other state: no handler matches and the update is dropped,
\* so that no handler runs and nothing changes
TextDropped(u, txt) ==
    /\ conv[u] \notin TextStates
    /\ Len(txt) >= 0
    /\ UNCHANGED vars

----------------------------------------------------------------------------
(* Inputs *)

\* the texts typed at the position prompt
PositionTexts ==
    { <<"1">>, <<" ", "1", " ">>, <<"7">>, <<"c", "a", "n", "c", "e", "l">> }

\* the texts typed at the mmr prompt
MmrTexts ==
    { <<"3", "0", "0", "0">>, <<"1", "5", "0", "0", "1">>, <<"-", "5">>, <<"a", "b", "c">>,
      <<"C", "A", "N", "C", "E", "L">> }

\* the texts typed in the state SEARCH_MMR
DeltaTexts ==
    { <<"2", "5", "0">>, <<"0">>, <<"a", "b", "c">>, <<"c", "a", "n", "c", "e", "l">> }

\* the texts typed where no text handler is registered
OtherTexts == { <<"1">> }

\* the modes whose buttons are pressed
ModeInputs == {"Ranked"}

\* the position buttons pressed
SelectInputs == {"1"}

\* the arguments of the delta_ buttons of search_mmr_keyboard
DeltaInputs == { <<"1", "0", "0">>, <<"2", "5", "0">>, <<"5", "0", "0">>, Chars_custom }

----------------------------------------------------------------------------
(* The dialogue of one user over a table that holds two other profiles *)

NoMessage == [text |-> NoText, kb |-> Kb("NONE", "", "")]

NoEvent == Ev(0, "none", Tok(""), "none", <<>>)

InitialTable ==
    [u \in Users |->
        CASE u = 2 -> Row("Carry", "Ranked", 3100, Username(2), TRUE, FALSE)
          [] u = 3 -> Row("Mid", "Turbo", NoneInt, Username(3), TRUE, TRUE)
          [] OTHER -> NoProfile]

Init ==
    /\ profiles = InitialTable
    /\ user_data = [u \in Users |-> EmptyUserData]
    /\ conv = [u \in Users |-> END]
    /\ shown = [u \in Users |-> NoMessage]
    /\ last = NoEvent

Next ==
    \E u \in Actors :
        \/ Start(u)
        \/ GoBack(u)
        \/ MainMenu(u)
        \/ MyProfile(u)
        \/ \E db_error \in BOOLEAN : ToggleOnline(u, db_error)
        \/ \E db_error \in BOOLEAN : ToggleFullparty(u, db_error)
        \/ EditPosition(u)
        \/ EditMode(u)
        \/ EditMmr(u)
        \/ \E m \in ModeInputs, db_error \in BOOLEAN : SetMode(u, m, db_error)
        \/ SearchParty(u)
        \/ \E m \in ModeInputs : ModeChosen(u, m)
        \/ ToggleExclude(u)
        \/ StartSearch(u)
        \/ SpecPosition(u)
        \/ \E key \in SelectInputs : SelectPos(u, key)
        \/ \E yes \in BOOLEAN : OnlyFull(u, yes)
        \/ \E db_error \in BOOLEAN : MmrNone(u, db_error)
        \/ \E s \in DeltaInputs, db_error \in BOOLEAN : Delta(u, s, db_error)
        \/ \E txt \in PositionTexts, db_error \in BOOLEAN : get_position(u, txt, db_error)
        \/ \E txt \in MmrTexts, db_error \in BOOLEAN : get_mmr(u, txt, db_error)
        \/ \E txt \in DeltaTexts, db_error \in BOOLEAN : get_search_mmr_custom(u, txt, db_error)
        \/ \E txt \in OtherTexts : TextDropped(u, txt)

Spec == Init /\ [][Next]_vars

----------------------------------------------------------------------------
(* The search triggers over drawn tables and session fields: the user is at *)
(* the mmr options with any combination of the search fields stored         *)

\* the positions, modes and mmr values of the drawn rows
SamplePositions == {None, "Carry", "Mid"}
SampleModes == {None, "Ranked", "Turbo"}
SampleMmrs == {NoneInt, 2750, 3251}

CandidateRows ==
    {NoProfile} \cup
    { Row(p, m, r, Username(2), o, f) :
        p \in SamplePositions, m \in SampleModes, r \in SampleMmrs,
        o \in BOOLEAN, f \in BOOLEAN }

RequesterRows ==
    {NoProfile} \cup
    { Row(p, None, r, Username(1), TRUE, TRUE) : p \in {None, "Mid"}, r \in {NoneInt, 100, 3000} }

SearchSessions ==
    { [EmptyUserData EXCEPT !.back_stack = <<"MAIN_MENU">>, !.search_mode = m,
                            !.exclude_position = e, !.specific_position = sp,
                            !.only_full_party = f, !.own_position = "Mid"] :
        m \in {None, "Ranked"}, e \in {None, "True", "False"},
        sp \in {None, "Mid"}, f \in {None, "True", "False"} }

InitSearch ==
    /\ \E r \in RequesterRows, c \in CandidateRows :
          profiles = [u \in Users |->
                        CASE u = 1 -> r
                          [] u = 2 -> c
                          [] OTHER -> Row("Mid", "Ranked", 3000, Username(3), TRUE, FALSE)]
    /\ \E ud \in SearchSessions :
          user_data = [u \in Users |-> IF u = 1 THEN ud ELSE EmptyUserData]
    /\ conv = [u \in Users |-> IF u = 1 THEN SEARCH_MMR ELSE END]
    /\ shown = [u \in Users |->
                  IF u = 1 THEN [text |-> Text("MMR_OPTIONS_ANY", <<>>), kb |-> search_mmr_keyboard]
                  ELSE NoMessage]
    /\ last = NoEvent

NextSearch ==
    \E u \in Actors :
        \/ \E db_error \in BOOLEAN : MmrNone(u, db_error)
        \/ \E s \in DeltaInputs, db_error \in BOOLEAN : Delta(u, s, db_error)
        \/ \E txt \in DeltaTexts, db_error \in BOOLEAN : get_search_mmr_custom(u, txt, db_error)

SpecSearch == InitSearch /\ [][NextSearch]_vars

----------------------------------------------------------------------------
(* perform_search_and_reply as a function of the table and of the arguments  *)
(* the search triggers read from user_data: the call is made on drawn tables *)
(* and sessions and leaves both in place, so that its result can be compared *)
(* with its arguments.  The table is large enough for LIMIT 30 to cut.       *)

QueryUsers == 1..(SearchLimit + 3)

\* the mmr values around the bounds of the windows [2750, 3250] and [0, 350]
ProbeMmrs == {NoneInt, 0, 350, 351, 2749, 2750, 3250, 3251}

QueryRequesters ==
    { NoProfile,
      Row(None, None, 3000, Username(1), TRUE, TRUE),
      Row("Mid", None, 3000, Username(1), TRUE, TRUE),
      Row("Mid", None, 100, Username(1), TRUE, TRUE),
      Row("Mid", None, NoneInt, Username(1), TRUE, TRUE) }

\* the row of user 2: any position, a mode (one of them in lower case), online
\* and full_party
QueryCandidates ==
    {NoProfile} \cup
    { Row(p, m, 3000, Username(2), o, f) :
        p \in {None, "Mid", "Carry"}, m \in {None, "ranked", "Turbo"},
        o \in BOOLEAN, f \in BOOLEAN }

\* the row of user 3: any of the probed mmr values
ProbeRows == { Row("Carry", "Ranked", r, Username(3), TRUE, TRUE) : r \in ProbeMmrs }

\* the row every further user of the table has
CrowdRow == Row("Carry", "Ranked", 3000, None, TRUE, TRUE)

\* how many further users the table holds
CrowdSizes == {0, SearchLimit}

\* the mmr_filter argument a trigger's token stands for
FilterOf(data) == IF data.p = "mmr_none" THEN NoneInt ELSE IntOf(data.s).val

QueryTokens == { Tok("mmr_none"), TokArg("delta_", <<"2", "5", "0">>) }

InitQuery ==
    /\ \E r \in QueryRequesters, c \in QueryCandidates, b \in ProbeRows, n \in CrowdSizes :
          profiles = [u \in QueryUsers |->
                        CASE u = 1 -> r
                          [] u = 2 -> c
                          [] u = 3 -> b
                          [] OTHER -> IF u <= 3 + n THEN CrowdRow ELSE NoProfile]
    /\ \E ud \in SearchSessions :
          user_data = [u \in Users |-> IF u = 1 THEN ud ELSE EmptyUserData]
    /\ conv = [u \in Users |-> IF u = 1 THEN SEARCH_MMR ELSE END]
    /\ shown = [u \in Users |->
                  IF u = 1 THEN [text |-> Text("MMR_OPTIONS_ANY", <<>>), kb |-> search_mmr_keyboard]
                  ELSE NoMessage]
    /\ last = NoEvent

\* the call of perform_search_and_reply a trigger makes, before its pops
Query(u, data, db_error) ==
    LET ud == user_data[u]
        r == perform_search_and_reply(profiles, u, ud.search_mode, FilterOf(data), ExcludeArg(ud),
                                      ud.specific_position, OnlyFullArg(ud), db_error)
    IN  /\ shown' = [shown EXCEPT ![u] = r.msg]
        /\ last' = Ev(u, "query", data, r.out, r.rows)
        /\ UNCHANGED <<profiles, user_data, conv>>

NextQuery == \E u \in Actors, data \in QueryTokens, db_error \in BOOLEAN : Query(u, data, db_error)

SpecQuery == InitQuery /\ [][NextQuery]_vars

----------------------------------------------------------------------------
(* The profile edits by text, with more texts than Spec types: every digit   *)
(* of POSITIONS, texts next to them, and the mmr values at and around the    *)
(* bounds of the accepted range                                             *)

EditPositionTexts ==
    { <<"1">>, <<"2">>, <<"3">>, <<"4">>, <<"5">>, <<"0">>, <<"6">>, <<"1", "2">>, <<"a">>,
      <<" ", "3", " ">>, <<"c", "a", "n", "c", "e", "l">> }

EditMmrTexts ==
    { <<"0">>, <<"7", "5", "0", "0">>, <<"1", "5", "0", "0", "0">>, <<"1", "5", "0", "0", "1">>,
      <<"-", "1">>, <<"a", "b", "c">>, <<"c", "a", "n", "c", "e", "l">> }

NextEdit ==
    \E u \in Actors :
        \/ Start(u)
        \/ GoBack(u)
        \/ MainMenu(u)
        \/ MyProfile(u)
        \/ EditPosition(u)
        \/ EditMmr(u)
        \/ \E txt \in EditPositionTexts, db_error \in BOOLEAN : get_position(u, txt, db_error)
        \/ \E txt \in EditMmrTexts, db_error \in BOOLEAN : get_mmr(u, txt, db_error)

SpecEdit == Init /\ [][NextEdit]_vars

----------------------------------------------------------------------------
(* The profile edits with every token the setmode_ branch takes: the branch *)
(* stores whatever follows the prefix, so that the tokens are the four that *)
(* mode_selection_keyboard builds and two that no layout carries            *)

SetModeTokens == {"Turbo", "All Pick", "Single Draft", "Ranked", "Foo", ""}

NextStore ==
    \E u \in Actors :
        \/ Start(u)
        \/ GoBack(u)
        \/ MainMenu(u)
        \/ MyProfile(u)
        \/ EditPosition(u)
        \/ EditMode(u)
        \/ EditMmr(u)
        \/ \E m \in SetModeTokens, db_error \in BOOLEAN : SetMode(u, m, db_error)
        \/ \E txt \in EditPositionTexts, db_error \in BOOLEAN : get_position(u, txt, db_error)
        \/ \E txt \in EditMmrTexts, db_error \in BOOLEAN : get_mmr(u, txt, db_error)

SpecStore == Init /\ [][NextStore]_vars

----------------------------------------------------------------------------
(* Two toggle_online updates of one user in flight together, interleaved    *)
(* statement by statement: the read of the row, the SELECT of the upsert,   *)
(* its INSERT or UPDATE, and the reply.  The library hands the updates of a *)
(* user to button_handler one after the other and a coroutine gives way at  *)
(* an await only, so that the schedules of the program are among these.     *)
(* Here last holds the update and, as its rows, the locals of both runs.    *)

RaceUser == 1
Handlers == {1, 2}

\* the locals of a run that has not read yet, with the row the table held
\* when the two updates arrived
Frame(row) ==
    [pc |-> "read", current_online |-> FALSE, exists |-> FALSE, inserted |-> FALSE,
     stamp |-> 0, seen |-> 0, orig_exists |-> row.exists, orig_online |-> row.online]

InFlight(frames) == Ev(RaceUser, "button", Tok("toggle_online"), "running", frames)

\* the number of writes made so far
WritesDone == Cardinality({ j \in Handlers : last.rows[j].stamp > 0 })

\* what a statement of run i leaves in the locals
Locals(i, f) == last' = InFlight([last.rows EXCEPT ![i] = f])

\* profile = get_profile(user_id) or {}; current_online = profile.get("online", False)
toggle_online_read(i) ==
    LET f == last.rows[i]
    IN  /\ f.pc = "read"
        /\ Locals(i, [f EXCEPT !.pc = "select", !.seen = WritesDone,
                               !.current_online = get_profile(profiles, RaceUser).online])
        /\ UNCHANGED <<profiles, user_data, conv, shown>>

\* upsert_profile: SELECT 1 FROM profiles WHERE user_id = ?
toggle_online_select(i) ==
    LET f == last.rows[i]
    IN  /\ f.pc = "select"
        /\ Locals(i, [f EXCEPT !.pc = "write", !.exists = profiles[RaceUser].exists])
        /\ UNCHANGED <<profiles, user_data, conv, shown>>

\* the INSERT made although the table holds a row of the user: no primary key
toggle_online_write_NoPrimaryKey(i) ==
    LET f == last.rows[i]
        new_online == ~f.current_online
    IN  /\ f.pc = "write"
        /\ profiles' = IF f.exists
                       THEN upsert_profile(profiles, RaceUser, None, None, NoneInt,
                                           Username(RaceUser),
                                           IF new_online THEN "True" ELSE "False", None)
                       ELSE [profiles EXCEPT ![RaceUser] =
                               Row(None, None, NoneInt, Username(RaceUser), new_online, FALSE)]
        /\ Locals(i, [f EXCEPT !.pc = "render", !.inserted = ~f.exists,
                               !.stamp = WritesDone + 1])
        /\ UNCHANGED <<user_data, conv, shown>>

\* upsert_profile: the UPDATE if the SELECT found the row, the INSERT if not,
\* and the commit; the INSERT of a user id the table holds fails on the
\* primary key, and the handler's except branch takes over
toggle_online_write(i) ==
    LET f == last.rows[i]
        new_online == ~f.current_online
    IN  /\ f.pc = "write"
        /\ IF ~f.exists /\ profiles[RaceUser].exists
           THEN /\ Locals(i, [f EXCEPT !.pc = "failed"])
                /\ UNCHANGED profiles
           ELSE /\ profiles' = upsert_profile(profiles, RaceUser, None, None, NoneInt,
                                              Username(RaceUser),
                                              IF new_online THEN "True" ELSE "False", None)
                /\ Locals(i, [f EXCEPT !.pc = "render", !.inserted = ~f.exists,
                                       !.stamp = WritesDone + 1])
        /\ UNCHANGED <<user_data, conv, shown>>

\* the reply: the status text with the profile layout, or the failure notice
toggle_online_render(i) ==
    LET f == last.rows[i]
        new_online == ~f.current_online
        text == Text(IF new_online THEN "ONLINE_ON" ELSE "ONLINE_OFF", <<>>)
    IN  /\ f.pc \in {"render", "failed"}
        /\ Locals(i, [f EXCEPT !.pc = "done"])
        /\ conv' = [conv EXCEPT ![RaceUser] = END]
        /\ IF f.pc = "failed"
           THEN /\ shown' = [shown EXCEPT ![RaceUser] =
                               [text |-> Text("TOGGLE_ONLINE_ERROR", <<>>),
                                kb |-> get_main_keyboard]]
                /\ UNCHANGED user_data
           ELSE /\ shown' = [shown EXCEPT ![RaceUser] =
                               [text |-> text,
                                kb |-> profile_edit_keyboard_dynamic(
                                           new_online,
                                           get_profile(profiles, RaceUser).full_party)]]
                /\ user_data' = [user_data EXCEPT ![RaceUser] =
                                   store_last_text(@, "PROFILE", text)]
        /\ UNCHANGED profiles

\* the row of the user when the two updates arrive
RaceRows ==
    {NoProfile} \cup
    { Row(p, None, NoneInt, Username(RaceUser), o, fp) :
        p \in {None, "Carry"}, o \in BOOLEAN, fp \in BOOLEAN }

\* the user is at the profile view, whose layout carries the toggle
InitRace ==
    \E row \in RaceRows :
        LET text == Text("PROFILE_VIEW", <<row.position, row.mode, row.mmr, row.username>>)
        IN  /\ profiles = [InitialTable EXCEPT ![RaceUser] = row]
            /\ user_data = [u \in Users |->
                              IF u = RaceUser
                              THEN store_last_text(EmptyUserData, "PROFILE", text)
                              ELSE EmptyUserData]
            /\ conv = [u \in Users |-> END]
            /\ shown = [u \in Users |->
                          IF u = RaceUser
                          THEN [text |-> text,
                                kb |-> profile_edit_keyboard_dynamic(row.online, row.full_party)]
                          ELSE NoMessage]
            /\ last = InFlight([i \in Handlers |-> Frame(row)])

NextRace ==
    \E i \in Handlers :
        \/ toggle_online_read(i)
        \/ toggle_online_select(i)
        \/ toggle_online_write(i)
        \/ toggle_online_render(i)

SpecRace == InitRace /\ [][NextRace]_vars

----------------------------------------------------------------------------
(* Two users whose updates interleave: each has its own context.user_data   *)
(* and its own conversation state, and both write to the one profiles table *)

PairActors == {1, 2}

NextPair ==
    \E u \in PairActors :
        \/ Start(u)
        \/ GoBack(u)
        \/ MainMenu(u)
        \/ MyProfile(u)
        \/ ToggleOnline(u, FALSE)
        \/ EditPosition(u)
        \/ SearchParty(u)
        \/ \E m \in ModeInputs : ModeChosen(u, m)
        \/ ToggleExclude(u)
        \/ StartSearch(u)
        \/ OnlyFull(u, TRUE)
        \/ MmrNone(u, FALSE)

SpecPair == Init /\ [][NextPair]_vars

----------------------------------------------------------------------------
(* cmd_dump_profiles_protected: the command /dump_profiles.  The handler is  *)
(* registered beside the ConversationHandler, so that the command is taken   *)
(* in every conversation state.  The messages it sends are texts in full: a  *)
(* sequence of one-character strings each.                                   *)

ADMIN_DUMP_USER_ID == 1637269136

\* LIMIT 500 of the dump's SELECT
DumpLimit == 500

chunk_size == 4000

\* the characters of the names a row can hold
CharsOf(s) ==
    CASE s = "Carry" -> <<"C", "a", "r", "r", "y">>
      [] s = "Mid" -> <<"M", "i", "d">>
      [] s = "Offlane" -> <<"O", "f", "f", "l", "a", "n", "e">>
      [] s = "Soft Support" -> <<"S", "o", "f", "t", " ", "S", "u", "p", "p", "o", "r", "t">>
      [] s = "Hard Support" -> <<"H", "a", "r", "d", " ", "S", "u", "p", "p", "o", "r", "t">>
      [] s = "Turbo" -> <<"T", "u", "r", "b", "o">>
      [] s = "All Pick" -> <<"A", "l", "l", " ", "P", "i", "c", "k">>
      [] s = "Single Draft" -> <<"S", "i", "n", "g", "l", "e", " ", "D", "r", "a", "f", "t">>
      [] s = "Ranked" -> <<"R", "a", "n", "k", "e", "d">>
      [] s = "u1" -> <<"u", "1">>
      [] s = "u2" -> <<"u", "2">>

\* str() of a non-negative integer
RECURSIVE IntStr(_)
IntStr(n) ==
    IF n < 10 THEN <<Digits[n + 1]>>
    ELSE IntStr(n \div 10) \o <<Digits[(n % 10) + 1]>>

\* the one-character dash printed for a field that is NULL
Dash == <<"-">>

\* the line of the dump for one row of the table
DumpLine(uid, row) ==
    IntStr(uid)
      \o <<" ", "|", " ", "p", "o", "s", "=">> \o (IF row.position # None THEN CharsOf(row.position) ELSE Dash)
      \o <<" ", "|", " ", "m", "o", "d", "e", "=">> \o (IF row.mode # None THEN CharsOf(row.mode) ELSE Dash)
      \o <<" ", "|", " ", "m", "m", "r", "=">> \o (IF row.mmr # NoneInt THEN IntStr(row.mmr) ELSE Dash)
      \o <<" ">>
      \o <<"|", " ", "u", "s", "e", "r", "n", "a", "m", "e", "=">> \o (IF row.username # None THEN CharsOf(row.username) ELSE Dash)
      \o <<" ", "|", " ", "o", "n", "l", "i", "n", "e", "=">> \o (IF row.online THEN <<"1">> ELSE <<"0">>)
      \o <<" ", "|", " ", "f", "u", "l", "l", "=">> \o (IF row.full_party THEN <<"1">> ELSE <<"0">>)

\* "\n".join(lines[i..j])
RECURSIVE JoinLines(_, _, _)
JoinLines(lines, i, j) ==
    IF i > j THEN <<>>
    ELSE IF i = j THEN lines[i]
    ELSE LET m == (i + j) \div 2
         IN  JoinLines(lines, i, m) \o <<"\n">> \o JoinLines(lines, m + 1, j)

\* the user ids of the rows of the table, in table order
StoredIds(store) ==
    SelectSeq([i \in 1..Cardinality(DOMAIN store) |-> i], LAMBDA uid : store[uid].exists)

\* the rows the dump's SELECT returns: the rows in table order, LIMIT 500
DumpIds(store) ==
    LET ids == StoredIds(store)
    IN  IF Len(ids) > DumpLimit THEN SubSeq(ids, 1, DumpLimit) ELSE ids

\* the text of the dump for a sequence of user ids
DumpText(store, ids) ==
    JoinLines([i \in 1..Len(ids) |-> DumpLine(ids[i], store[ids[i]])], 1, Len(ids))

\* text[i:i+chunk_size] for i in range(0, len(text), chunk_size)
Chunks(text) ==
    [k \in 1..((Len(text) + chunk_size - 1) \div chunk_size) |->
        SubSeq(text, chunk_size * (k - 1) + 1,
               IF chunk_size * k < Len(text) THEN chunk_size * k ELSE Len(text))]

NoKeyboard == Kb("NONE", "", "")

\* the command without the test of the caller
cmd_dump_profiles_protected_AnyCaller(caller, db_error) ==
    LET ids == DumpIds(profiles)
        chunks == Chunks(DumpText(profiles, ids))
        Reply(out, msgs) ==
            /\ shown' = [shown EXCEPT ![caller] = [text |-> msgs[Len(msgs)], kb |-> NoKeyboard]]
            /\ last' = Ev(caller, "command", Tok("/dump_profiles"), out, msgs)
            /\ UNCHANGED <<profiles, user_data, conv>>
    IN  IF db_error
        THEN Reply("read_error", <<Text("DUMP_READ_ERROR", <<>>)>>)
        ELSE IF ids = <<>>
        THEN Reply("empty", <<Text("DUMP_EMPTY", <<>>)>>)
        ELSE Reply("dumped", [k \in 1..Len(chunks) |-> Text("DUMP", chunks[k])])

\* the messages the command sends, in order, are the rows of the event; the
\* last of them is the message on display
cmd_dump_profiles_protected(caller, db_error) ==
    LET ids == DumpIds(profiles)
        chunks == Chunks(DumpText(profiles, ids))
        Reply(out, msgs) ==
            /\ shown' = [shown EXCEPT ![caller] = [text |-> msgs[Len(msgs)], kb |-> NoKeyboard]]
            /\ last' = Ev(caller, "command", Tok("/dump_profiles"), out, msgs)
            /\ UNCHANGED <<profiles, user_data, conv>>
    IN  IF caller # ADMIN_DUMP_USER_ID
        THEN Reply("refused", <<Text("NO_ACCESS", <<>>)>>)
        ELSE IF db_error
        THEN Reply("read_error", <<Text("DUMP_READ_ERROR", <<>>)>>)
        ELSE IF ids = <<>>
        THEN Reply("empty", <<Text("DUMP_EMPTY", <<>>)>>)
        ELSE Reply("dumped", [k \in 1..Len(chunks) |-> Text("DUMP", chunks[k])])

\* the tables the command is called on: two rows of any content and a crowd
\* of further rows, up to one row more than LIMIT 500 returns
DumpUsers == 1..(DumpLimit + 1)

DumpRows ==
    { NoProfile,
      Row("Carry", "Ranked", 0, "u1", TRUE, FALSE),
      Row("Hard Support", "All Pick", 15000, "u2", FALSE, TRUE),
      Row(None, None, NoneInt, None, FALSE, FALSE) }

DumpCrowdRow == Row("Mid", "Turbo", 3000, None, TRUE, TRUE)

DumpCrowdSizes == {0, 70, DumpLimit - 2, DumpLimit - 1}

\* the callers: the configured identity and another user
DumpCallers == {1, ADMIN_DUMP_USER_ID}

\* the caller's session: none yet, or a search flow at the mmr options
DumpSessions ==
    { [ud |-> EmptyUserData, conv |-> END, msg |-> NoMessage],
      [ud |-> [EmptyUserData EXCEPT !.back_stack = <<"MAIN_MENU", "SEARCH_MODE",
                                                     "SEARCH_POS_OPTION", "SEARCH_FULL_OPTION">>,
                                    !.search_mode = "Ranked", !.exclude_position = "True",
                                    !.only_full_party = "False", !.own_position = "Mid"],
       conv |-> SEARCH_MMR,
       msg |-> [text |-> Text("MMR_OPTIONS_ANY", <<>>), kb |-> search_mmr_keyboard]] }

InitDump ==
    /\ \E r1 \in DumpRows, r2 \in DumpRows, n \in DumpCrowdSizes :
          profiles = [u \in DumpUsers |->
                        CASE u = 1 -> r1
                          [] u = 2 -> r2
                          [] OTHER -> IF u <= 2 + n THEN DumpCrowdRow ELSE NoProfile]
    /\ \E s \in DumpSessions :
          /\ user_data = [u \in DumpCallers |-> s.ud]
          /\ conv = [u \in DumpCallers |-> s.conv]
          /\ shown = [u \in DumpCallers |-> s.msg]
    /\ last = NoEvent

NextDump ==
    \E caller \in DumpCallers, db_error \in BOOLEAN : cmd_dump_profiles_protected(caller, db_error)

SpecDump == InitDump /\ [][NextDump]_vars

----------------------------------------------------------------------------
(* The step of the dialogue a user is at: a text prompt is the state the    *)
(* ConversationHandler holds, a button step is the layout on display        *)

DialogueState(u) ==
    CASE conv[u] = POSITION -> "EditPosition"
      [] conv[u] = MMR -> "EditMmr"
      [] conv[u] = SEARCH_MMR /\ shown[u].kb.id = "SEARCH_MMR" -> "ChooseMmrOption"
      [] conv[u] = SEARCH_MMR -> "EnterCustomDelta"
      [] shown[u].kb.id = "SETMODE" -> "EditMode"
      [] shown[u].kb.id = "SEARCHMODE" -> "ChooseSearchMode"
      [] shown[u].kb.id = "POS_OPTION" -> "ChoosePositionOption"
      [] shown[u].kb.id = "SELECT_POS" -> "ChooseSpecificPosition"
      [] shown[u].kb.id = "FULL_OPTION" -> "ChooseFullPartyOption"
      [] shown[u].kb.id = "SEARCH_MMR" -> "ChooseMmrOption"
      [] OTHER -> "Idle"

\* the five search fields of the session are unset
SearchFieldsUnset(ud) ==
    /\ ud.search_mode = None
    /\ ud.exclude_position = None
    /\ ud.specific_position = None
    /\ ud.only_full_party = None
    /\ ud.own_position = None

\* the search fields of a session
SearchFields(ud) ==
    <<ud.search_mode, ud.exclude_position, ud.specific_position, ud.only_full_party,
      ud.own_position>>

----------------------------------------------------------------------------
(* Claims *)

\* the position clause the next search of user u would add
NextClause(u) ==
    PositionClause(user_data[u].specific_position, ExcludeArg(user_data[u]),
                   get_profile(profiles, u).position)

\* the layout that shows a step of the back stack
StepLayout(step) ==
    CASE step = "MAIN_MENU" -> "MAIN"
      [] step = "PROFILE" -> "PROFILE"
      [] step = "SEARCH_MODE" -> "SEARCHMODE"
      [] step = "SEARCH_POS_OPTION" -> "POS_OPTION"
      [] step = "SELECT_POSITION" -> "SELECT_POS"
      [] step = "SEARCH_FULL_OPTION" -> "FULL_OPTION"
      [] step = "SEARCH_MMR" -> "SEARCH_MMR"
      [] OTHER -> "MAIN"

\* C1: no row a search returns is the requester's own, and every row returned
\* belongs to a profile that is online
C1_NoSelfNoOffline ==
    last.out = "results" =>
        \A i \in 1..Len(last.rows) :
            /\ last.rows[i].user_id # last.user
            /\ profiles[last.rows[i].user_id].online

\* a search returned rows while the requester's own row is online and the
\* table holds an offline row
C1_Witness ==
    /\ last.out = "results"
    /\ profiles[1].exists /\ profiles[1].online
    /\ \E u \in Users : profiles[u].exists /\ ~profiles[u].online

\* C2: after a specific position is selected the next search filters on it, and
\* after a later toggle of the exclusion the next search no longer filters on
\* the specific position
C2_LastSetFilterWins ==
    /\ (last.data.p = "selectpos_" /\ last.out = "prompt") => NextClause(1).kind = "eq"
    /\ last.data.p = "toggle_exclude_position" => NextClause(1).kind # "eq"

\* C3: once a search has rendered its results or the no-matches message, the
\* five search fields are unset, the back stack is empty and the dialogue is Idle
C3_SearchEndsClean ==
    last.out \in {"results", "no_matches"} =>
        /\ SearchFieldsUnset(user_data[last.user])
        /\ user_data[last.user].back_stack = <<>>
        /\ DialogueState(last.user) = "Idle"

\* a custom delta typed as text ran a search that matched nothing
C3_Witness ==
    /\ last.out = "no_matches"
    /\ last.kind = "text"
    /\ shown[1].text = Text("NO_MATCHES", <<>>)

\* C4: after the main menu button the dialogue is Idle with the main menu
\* rendered, every search field is unset and the back stack is empty
C4_MainMenuClears ==
    last.data.p = "main_menu" =>
        /\ DialogueState(last.user) = "Idle"
        /\ conv[last.user] = END
        /\ shown[last.user] = MainMenuMsg
        /\ SearchFieldsUnset(user_data[last.user])
        /\ user_data[last.user].back_stack = <<>>

\* the main menu button was pressed by a user who had gone as far as the mmr
\* options of a search
C4_Witness ==
    /\ last.data.p = "main_menu"
    /\ user_data[1].last_text["SEARCH_MMR"] # NoText
    /\ user_data[1].last_text["MMR"] # NoText

\* C5: whenever the dialogue is Idle with the main menu on display, the search
\* fields are unset and the back stack is empty
C5_IdleMenuIsClean ==
    (DialogueState(1) = "Idle" /\ shown[1].kb.id = "MAIN") =>
        /\ SearchFieldsUnset(user_data[1])
        /\ user_data[1].back_stack = <<>>

\* C6: every forward transition pushes the step it leaves, growing the back
\* stack by exactly that entry; "search" first empties the stack
C6_ForwardPushes ==
    [][ (last'.kind = "button" /\ last'.out = "prompt") =>
          LET p == last'.data.p
              before == user_data[last'.user].back_stack
              after == user_data'[last'.user].back_stack
          IN  /\ p \in {"edit_position", "edit_mode", "edit_mmr"} =>
                    after = Append(before, "PROFILE")
              /\ p = "search_party" => after = <<"MAIN_MENU">>
              /\ p = "mode_" => after = Append(before, "SEARCH_MODE")
              /\ p \in {"start_search", "spec_position"} =>
                    after = Append(before, "SEARCH_POS_OPTION")
              /\ p = "selectpos_" => after = Append(before, "SELECT_POSITION")
              /\ p \in {"only_full_yes", "only_full_no"} =>
                    after = Append(before, "SEARCH_FULL_OPTION") ]_vars

\* a full-party option was chosen at the end of the path through every forward
\* step of the search
C6_Witness ==
    /\ last.data.p = "only_full_yes"
    /\ user_data[1].back_stack = <<"MAIN_MENU", "SEARCH_MODE", "SEARCH_POS_OPTION",
                                   "SELECT_POSITION", "SEARCH_FULL_OPTION">>

\* C7: "back" (the button, or the cancel text at a text prompt) removes exactly
\* the top entry of the back stack and renders that step; on an empty stack it
\* removes nothing and renders the main menu
C7_BackPopsOne ==
    [][ last'.out = "back" =>
          LET u == last'.user
              before == user_data[u].back_stack
              after == user_data'[u].back_stack
          IN  IF before = <<>>
              THEN after = <<>> /\ shown'[u] = MainMenuMsg
              ELSE /\ after = SubSeq(before, 1, Len(before) - 1)
                   /\ shown'[u].kb.id = StepLayout(before[Len(before)]) ]_vars

\* the cancel text, typed at the mmr options, went back to the full-party step
C7_Witness ==
    /\ last.out = "back"
    /\ last.kind = "text"
    /\ shown[1].kb.id = "FULL_OPTION"
    /\ Len(user_data[1].back_stack) = 3

\* C8: "toggle exclude" is a self-loop of ChoosePositionOption: the back stack
\* and every search field but exclude_position are unchanged, exclude_position
\* changes, and the step on display is still ChoosePositionOption
C8_ToggleExcludeSelfLoop ==
    [][ \A u \in Users :
          (last'.user = u /\ last'.data.p = "toggle_exclude_position") =>
              /\ DialogueState(u) = "ChoosePositionOption"
              /\ DialogueState(u)' = "ChoosePositionOption"
              /\ user_data'[u].back_stack = user_data[u].back_stack
              /\ user_data'[u].search_mode = user_data[u].search_mode
              /\ user_data'[u].specific_position = user_data[u].specific_position
              /\ user_data'[u].only_full_party = user_data[u].only_full_party
              /\ user_data'[u].own_position = user_data[u].own_position
              /\ user_data'[u].exclude_position # user_data[u].exclude_position
              /\ profiles' = profiles ]_vars

\* the exclusion was toggled (to OFF) in a search whose stack holds two entries
C8_Witness ==
    /\ last.data.p = "toggle_exclude_position"
    /\ user_data[1].exclude_position = "False"
    /\ user_data[1].back_stack = <<"MAIN_MENU", "SEARCH_MODE">>
    /\ shown[1].kb = Kb("POS_OPTION", "OFF", "")

\* C9: the "custom delta" button renders the custom-delta prompt, pushes the
\* mmr options step, runs no search and clears no search field
C9_CustomDeltaOpensPrompt ==
    [][ \A u \in Users :
          (last'.user = u /\ last'.data.p = "delta_" /\ last'.data.s = Chars_custom) =>
              /\ last'.out = "prompt"
              /\ shown'[u].text = Text("CUSTOM_DELTA_PROMPT", <<>>)
              /\ user_data'[u].back_stack = Append(user_data[u].back_stack, "SEARCH_MMR")
              /\ DialogueState(u)' = "EnterCustomDelta"
              /\ SearchFields(user_data'[u]) = SearchFields(user_data[u]) ]_vars

\* C10: a text has an effect only in EditPosition, EditMmr and EnterCustomDelta:
\* in any other state no handler runs for it
C10_TextOnlyAtTextPrompts ==
    [][ last'.kind = "text" =>
          DialogueState(last'.user) \in {"EditPosition", "EditMmr", "EnterCustomDelta"} ]_vars

\* the mmr delta a handled update asks a search for, or NoneInt: the argument of
\* a delta_ button, or a positive integer typed in the state SEARCH_MMR
DeltaOf(ev) ==
    IF ev.kind = "button" /\ ev.data.p = "delta_" /\ IntOf(ev.data.s).ok
    THEN IntOf(ev.data.s).val
    ELSE IF ev.kind = "text" /\ IntOf(Strip(ev.data.s)).ok /\ IntOf(Strip(ev.data.s)).val > 0
    THEN IntOf(Strip(ev.data.s)).val
    ELSE NoneInt

\* C11: a search asked for with an mmr delta by a requester whose mmr is unset
\* ends in the message that tells the user to set the mmr, with no rows and
\* not the no-matches message; a search without mmr filter never ends that way
C11_MmrUnavailable ==
    /\ (DeltaOf(last) # NoneInt /\ get_profile(profiles, last.user).mmr = NoneInt) =>
          /\ last.out = "need_mmr"
          /\ last.rows = <<>>
          /\ shown[last.user] = [text |-> Text("NEED_MMR", <<>>), kb |-> need_mmr_keyboard]
    /\ last.data.p = "mmr_none" => last.out \notin {"need_mmr", "mmr_missing"}

\* a fixed delta was pressed by a requester whose profile exists without mmr
C11_Witness ==
    /\ last.out = "need_mmr"
    /\ last.data.p = "delta_"
    /\ profiles[1].exists /\ profiles[1].mmr = NoneInt

\* a query ran to its end and listed its rows (none included)
Listed(ev) == ev.out \in {"results", "no_matches"}

\* the rows the query of the event handled last returns when the session's
\* exclude_position is e
RowsWithExclude(e) ==
    LET u == last.user
        ud == user_data[u]
    IN  QueryRows(profiles, u, ud.search_mode, FilterOf(last.data),
                  ExcludeArg([ud EXCEPT !.exclude_position = e]), ud.specific_position,
                  OnlyFullArg(ud))

\* C12: with specific_position set, every row returned has that position and
\* the rows are the same for exclude_position true, false and unset
C12_SpecificPositionOverrides ==
    (Listed(last) /\ user_data[last.user].specific_position # None) =>
        /\ \A i \in 1..Len(last.rows) :
              last.rows[i].position = user_data[last.user].specific_position
        /\ \A e \in {None, "True", "False"} : RowsWithExclude(e) = last.rows

\* a search for the requester's own position, with the exclusion on, returned
\* a row of that position
C12_Witness ==
    /\ last.out = "results"
    /\ user_data[1].specific_position = "Mid"
    /\ profiles[1].position = "Mid"
    /\ user_data[1].exclude_position = "True"
    /\ last.rows[1].position = "Mid"

\* the row of user uid passes the rules that do not read the position, for the
\* query of the event handled last: it is another user's, online, of the
\* search mode when one is set, a full party when only those are asked for,
\* and inside the mmr window when a delta is set
MeetsOtherRules(uid) ==
    LET u == last.user
        ud == user_data[u]
        row == profiles[uid]
        delta == FilterOf(last.data)
        m == profiles[u].mmr
    IN  /\ row.exists
        /\ uid # u
        /\ row.online
        /\ ud.search_mode # None =>
              row.mode # None /\ LowerMode(row.mode) = LowerMode(ud.search_mode)
        /\ ud.only_full_party = "True" => row.full_party
        /\ delta # NoneInt =>
              /\ row.mmr # NoneInt
              /\ row.mmr >= (IF m - delta > 0 THEN m - delta ELSE 0)
              /\ row.mmr <= m + delta

\* the row of user uid is among the rows returned
Returned(uid) == \E i \in 1..Len(last.rows) : last.rows[i].user_id = uid

\* C13: without a specific position, an exclusion that is on (or unset) for a
\* requester with a position returns no row of that position and keeps the
\* rows without position; an exclusion that is off filters no position
C13_ExcludeOwnPosition ==
    (Listed(last) /\ user_data[last.user].specific_position = None) =>
        LET ud == user_data[last.user]
            requester_pos == profiles[last.user].position
        IN  /\ (ud.exclude_position # "False" /\ requester_pos # None) =>
                  \A i \in 1..Len(last.rows) : last.rows[i].position # requester_pos
            /\ Len(last.rows) < SearchLimit =>
                  \A uid \in DOMAIN profiles :
                      ( /\ MeetsOtherRules(uid)
                        /\ profiles[uid].position = None \/ ud.exclude_position = "False" )
                      => Returned(uid)

\* with the exclusion on for a requester at Mid, a row without position was
\* returned
C13_Witness ==
    /\ last.out = "results"
    /\ user_data[1].specific_position = None
    /\ user_data[1].exclude_position = "True"
    /\ profiles[1].position = "Mid"
    /\ \E i \in 1..Len(last.rows) : last.rows[i].position = None

\* the row of user uid passes the position rule of the query of the event
\* handled last: the specific position when one is set; otherwise, when the
\* exclusion is on and the requester has a position, any other position or none
MeetsPositionRule(uid) ==
    LET ud == user_data[last.user]
        requester_pos == profiles[last.user].position
        position == profiles[uid].position
    IN  IF ud.specific_position # None
        THEN position = ud.specific_position
        ELSE (ud.exclude_position # "False" /\ requester_pos # None) =>
                 (position = None \/ position # requester_pos)

\* the users whose rows pass every rule of the query of the event handled last
Qualifying ==
    { uid \in DOMAIN profiles : MeetsOtherRules(uid) /\ MeetsPositionRule(uid) }

\* C14: the rows returned are rows of distinct users that pass every rule, with
\* the columns as stored, and there are min(30, number of such users) of them
C14_RowsAreTheQualifyingCapped ==
    Listed(last) =>
        /\ \A i \in 1..Len(last.rows) :
              /\ last.rows[i].user_id \in Qualifying
              /\ last.rows[i] = Selected(profiles, last.rows[i].user_id)
        /\ \A i, j \in 1..Len(last.rows) :
              last.rows[i].user_id = last.rows[j].user_id => i = j
        /\ Len(last.rows) = IF Cardinality(Qualifying) > SearchLimit
                             THEN SearchLimit ELSE Cardinality(Qualifying)

\* more than 30 users passed every rule and 30 rows were returned
C14_Witness ==
    /\ last.out = "results"
    /\ Cardinality(Qualifying) > SearchLimit
    /\ Len(last.rows) = SearchLimit

\* C15: with a delta d and a requester's mmr m, every row returned has an mmr
\* in [max(0, m - d), m + d], a user at either bound who passes the other rules
\* is returned, and the windows of (3000, 250) and (100, 250) are [2750, 3250]
\* and [0, 350]
C15_MmrWindow ==
    /\ MinMmr(3000, 250) = 2750 /\ MaxMmr(3000, 250) = 3250
    /\ MinMmr(100, 250) = 0 /\ MaxMmr(100, 250) = 350
    /\ (Listed(last) /\ FilterOf(last.data) # NoneInt) =>
          LET m == profiles[last.user].mmr
              d == FilterOf(last.data)
              lo == IF m - d > 0 THEN m - d ELSE 0
              hi == m + d
          IN  /\ \A i \in 1..Len(last.rows) :
                    /\ last.rows[i].mmr # NoneInt
                    /\ lo <= last.rows[i].mmr /\ last.rows[i].mmr <= hi
              /\ Len(last.rows) < SearchLimit =>
                    \A uid \in Qualifying : profiles[uid].mmr \in {lo, hi} => Returned(uid)

\* a requester with mmr 100 searched with delta 250 and a row with mmr 0, the
\* clamped lower bound, was returned
C15_Witness ==
    /\ last.out = "results"
    /\ FilterOf(last.data) = 250
    /\ profiles[1].mmr = 100
    /\ \E i \in 1..Len(last.rows) : last.rows[i].mmr = 0

\* C16: "search" pressed at Idle enters ChooseSearchMode exactly when the
\* requester's profile exists with a position; otherwise the guidance to set a
\* position is rendered, the dialogue stays Idle and user_data is unchanged
C16_SearchNeedsPosition ==
    [][ \A u \in Users :
          (last'.user = u /\ last'.data.p = "search_party" /\ DialogueState(u) = "Idle") =>
              IF profiles[u].exists /\ profiles[u].position # None
              THEN DialogueState(u)' = "ChooseSearchMode"
              ELSE /\ shown'[u] = [text |-> Text("NEED_POSITION", <<>>),
                                   kb |-> need_position_keyboard]
                   /\ DialogueState(u)' = "Idle"
                   /\ user_data'[u] = user_data[u]
                   /\ profiles' = profiles ]_vars

\* "search" was refused for want of a position while the back stack still held
\* the entry of an earlier profile edit
C16_Witness ==
    /\ last.data.p = "search_party"
    /\ last.out = "need_position"
    /\ user_data[1].back_stack = <<"PROFILE">>
    /\ shown[1].kb = need_position_keyboard

\* the back stack without its last entry; an empty stack stays empty
Popped(stack) == IF stack = <<>> THEN <<>> ELSE SubSeq(stack, 1, Len(stack) - 1)

MmrInRange(txt) ==
    LET mmr == IntOf(Strip(txt))
    IN  mmr.ok /\ 0 <= mmr.val /\ mmr.val <= 15000

PositiveInt(txt) ==
    LET delta == IntOf(Strip(txt))
    IN  delta.ok /\ delta.val > 0

\* the step ran one search for user u with the delta typed and the search
\* fields user_data held: it ended in the rows of that query, or in the
\* notice that the search failed
SearchedWith(u, delta) ==
    LET ud == user_data[u]
    IN  \/ /\ last'.out \in {"results", "no_matches"}
           /\ last'.rows = QueryRows(profiles, u, ud.search_mode, delta, ExcludeArg(ud),
                                      ud.specific_position, OnlyFullArg(ud))
        \/ /\ last'.out = "search_error"
           /\ shown'[u].text = Text("SEARCH_ERROR", <<>>)

C20_ToggleTwiceRestores ==
    [][ \A u \in Users :
          (last'.user = u /\ last'.data.p = "toggle_exclude_position") =>
              /\ ExcludeArg(user_data'[u]) = ~ExcludeArg(user_data[u])
              /\ Len(user_data'[u].back_stack) = Len(user_data[u].back_stack)
              /\ shown'[u].kb.id = "POS_OPTION"
              /\ shown'[u].kb.a = (IF ExcludeArg(user_data'[u]) THEN "ON" ELSE "OFF") ]_vars

\* a toggle has set the exclusion back to ON: it was OFF before, which only an
\* earlier toggle does
C20_Witness ==
    /\ last.data.p = "toggle_exclude_position"
    /\ last.out = "toggled"
    /\ user_data[1].exclude_position = "True"
    /\ shown[1].kb = Kb("POS_OPTION", "ON", "")

\* the failure notice of the handler that saves what the update carries
FailureNotice(ev) ==
    CASE ev.data.p = "toggle_online" -> Text("TOGGLE_ONLINE_ERROR", <<>>)
      [] ev.data.p = "toggle_fullparty" -> Text("TOGGLE_FULL_ERROR", <<>>)
      [] ev.data.p = "setmode_" -> Text("MODE_SAVE_ERROR", <<>>)
      [] OTHER -> Text("SAVE_ERROR", <<>>)

\* C21: when upsert_profile fails while a position, an mmr, a mode or a toggle
\* is saved, the table is unchanged (the write is not made a second time), the
\* failure notice is rendered and the dialogue is at Idle
C21_StoreFailureAborts ==
    [][ \A u \in Users :
          (last'.user = u /\ last'.out = "store_error") =>
              /\ profiles' = profiles
              /\ shown'[u] = [text |-> FailureNotice(last'), kb |-> get_main_keyboard]
              /\ DialogueState(u)' = "Idle" ]_vars

\* the save of a mode failed in a profile that has a position and no mode
C21_Witness ==
    /\ last.data.p = "setmode_"
    /\ last.out = "store_error"
    /\ profiles[1].position # None
    /\ profiles[1].mode = None
    /\ shown[1].text = Text("MODE_SAVE_ERROR", <<>>)

\* C22: every update a handler ran for was answered: the handler did not
\* raise, a message is on display for the user and the conversation is in one
\* of its states
C22_EveryEventAnswered ==
    last.kind \in {"start", "button", "text"} =>
        /\ last.out # "exception"
        /\ shown[last.user] # NoMessage
        /\ conv[last.user] \in ConvStates

\* C23: after "main menu" and after a search has run the back stack is empty
\* and get_last_text is None for every step; after "search" has started a flow
\* the stack holds the root alone and only the text of the step just shown is
\* cached
C23_ClearDiscardsTexts ==
    [][ \A u \in Users :
          /\ (last'.user = u /\ ( \/ last'.data.p = "main_menu"
                                  \/ last'.out \in {"results", "no_matches", "search_error"} )) =>
                 /\ user_data'[u].back_stack = <<>>
                 /\ \A k \in StepKeys : get_last_text(user_data'[u], k) = NoText
          /\ (last'.user = u /\ last'.data.p = "search_party" /\ last'.out = "prompt") =>
                 /\ user_data'[u].back_stack = <<"MAIN_MENU">>
                 /\ \A k \in StepKeys \ {"SEARCH_MODE"} :
                       get_last_text(user_data'[u], k) = NoText ]_vars

\* C24: an update of one user changes nothing of any other user: not the
\* conversation state, not context.user_data (back stack, cached texts, search
\* fields), not the message on display, not the row of the profiles table
C24_SessionsAreIsolated ==
    [][ \A u \in Users : \A v \in Users \ {u} :
          last'.user = u =>
              /\ conv'[v] = conv[v]
              /\ user_data'[v] = user_data[v]
              /\ shown'[v] = shown[v]
              /\ profiles'[v] = profiles[v] ]_vars

\* user 1, who had no row, has switched to online (the row is created) while
\* user 2 is in the middle of a search flow with the exclusion toggled off
C24_Witness ==
    /\ last.user = 1
    /\ last.data.p = "toggle_online"
    /\ last.out = "toggled"
    /\ profiles[1].exists /\ profiles[1].online
    /\ shown[2].kb = Kb("POS_OPTION", "OFF", "")
    /\ user_data[2].exclude_position = "False"
    /\ user_data[2].back_stack = <<"MAIN_MENU", "SEARCH_MODE">>
    /\ profiles[2] = InitialTable[2]

\* C25: /dump_profiles called by anyone but the configured identity sends the
\* refusal and nothing else, the same whatever the table holds, and leaves the
\* table and the caller's session as they are
C25_RefusalDisclosesNothing ==
    [][ \A u \in DumpCallers \ {ADMIN_DUMP_USER_ID} :
          (last'.user = u /\ last'.kind = "command") =>
              /\ last'.rows = <<Text("NO_ACCESS", <<>>)>>
              /\ shown'[u].text = Text("NO_ACCESS", <<>>)
              /\ profiles' = profiles
              /\ user_data' = user_data
              /\ conv' = conv ]_vars

\* user 1 was refused the dump of a table of 501 rows, in the middle of a
\* search flow
C25_Witness ==
    /\ last.user = 1
    /\ last.kind = "command"
    /\ last.out = "refused"
    /\ Len(StoredIds(profiles)) = DumpLimit + 1
    /\ conv[1] = SEARCH_MMR
    /\ Len(user_data[1].back_stack) = 4

RECURSIVE ConcatTexts(_, _, _)
\* the texts of the messages i..j, one after the other
ConcatTexts(msgs, i, j) ==
    IF i > j THEN <<>>
    ELSE IF i = j THEN msgs[i][2]
    ELSE LET m == (i + j) \div 2
         IN  ConcatTexts(msgs, i, m) \o ConcatTexts(msgs, m + 1, j)

\* C26: /dump_profiles called by the configured identity on a table that
\* holds rows sends messages of at most 4000 characters each, whose texts one
\* after the other are the listing with one line for every row of the table
C26_DumpListsEveryProfile ==
    (last.kind = "command" /\ last.user = ADMIN_DUMP_USER_ID /\ last.out = "dumped") =>
        /\ \A k \in 1..Len(last.rows) :
              Len(last.rows[k][2]) <= chunk_size /\ Len(last.rows[k][2]) > 0
        /\ ConcatTexts(last.rows, 1, Len(last.rows))
              = DumpText(profiles, StoredIds(profiles))

\* C27: a search flow begins with the exclusion of the own position in
\* effect: it is in effect when "search" has opened the mode selection, and
\* when the mode chosen next opens the position options, whose toggle shows ON
C27_FlowStartsExcluding ==
    [][ \A u \in Users :
          /\ (last'.user = u /\ last'.data.p = "search_party" /\ last'.out = "prompt") =>
                 ExcludeArg(user_data'[u])
          /\ ( /\ last.user = u /\ last.data.p = "search_party" /\ last.out = "prompt"
               /\ last'.user = u /\ last'.data.p = "mode_" /\ last'.out = "prompt" ) =>
                 /\ ExcludeArg(user_data'[u])
                 /\ shown'[u].kb = Kb("POS_OPTION", "ON", "") ]_vars

\* the step a layout on display belongs to, None for the layouts of no step
LayoutStep(id) ==
    CASE id = "PROFILE" -> "PROFILE"
      [] id = "SEARCHMODE" -> "SEARCH_MODE"
      [] id = "POS_OPTION" -> "SEARCH_POS_OPTION"
      [] id = "SELECT_POS" -> "SELECT_POSITION"
      [] id = "FULL_OPTION" -> "SEARCH_FULL_OPTION"
      [] id = "SEARCH_MMR" -> "SEARCH_MMR"
      [] OTHER -> None

\* C28: the text cached for a step is the text last shown for it: while the
\* layout of a step is on display, get_last_text of that step is the text on
\* display
C28_CacheHoldsShownText ==
    \A u \in Users :
        LayoutStep(shown[u].kb.id) # None =>
            get_last_text(user_data[u], LayoutStep(shown[u].kb.id)) = shown[u].text

\* C29: the back stack never holds a step twice, so that it is never longer
\* than the number of steps
C29_StackHoldsNoStepTwice ==
    \A u \in Users :
        LET stack == user_data[u].back_stack
        IN  /\ \A i, j \in 1..Len(stack) : i # j => stack[i] # stack[j]
            /\ Len(stack) <= Cardinality(StepKeys \cup {"MAIN_MENU"})

\* C30: "toggle online" and "toggle full party" update in place: the toggle
\* that is stored negates its own flag of the caller's row (a caller without a
\* row gets one, with the flag on) and leaves position, mode, mmr and the other
\* flag as they were; the toggle whose write fails changes no row; either way
\* the back stack, the search fields and the rows of other users are unchanged
C30_ProfileTogglesInPlace ==
    [][ \A u \in Users :
          (last'.user = u /\ last'.data.p \in {"toggle_online", "toggle_fullparty"}) =>
              LET old == get_profile(profiles, u)
                  new == get_profile(profiles', u)
              IN  /\ new.position = old.position
                  /\ new.mode = old.mode
                  /\ new.mmr = old.mmr
                  /\ IF last'.out = "toggled"
                     THEN /\ new.exists
                          /\ last'.data.p = "toggle_online" =>
                                (new.online = ~old.online /\ new.full_party = old.full_party)
                          /\ last'.data.p = "toggle_fullparty" =>
                                (new.full_party = ~old.full_party /\ new.online = old.online)
                     ELSE new = old
                  /\ \A v \in Users \ {u} : profiles'[v] = profiles[v]
                  /\ user_data'[u].back_stack = user_data[u].back_stack
                  /\ SearchFields(user_data'[u]) = SearchFields(user_data[u]) ]_vars

\* full party was switched on in a row that is online and has a position, with
\* an entry on the back stack
C30_Witness ==
    /\ last.data.p = "toggle_fullparty"
    /\ last.out = "toggled"
    /\ profiles[1].full_party
    /\ profiles[1].online
    /\ profiles[1].position = "Carry"
    /\ user_data[1].back_stack # <<>>

\* the labels of POSITIONS and the modes of GAME_MODES
PositionLabels == { POSITIONS[k] : k \in DOMAIN POSITIONS }
ModeNames == { GAME_MODES[i] : i \in 1..Len(GAME_MODES) }

\* C31: every row of the table has a position that is NULL or one of the five
\* labels, a mode that is NULL or one of the four game modes, and an mmr that
\* is NULL or an integer of 0..15000
C31_StoredFieldsInDomain ==
    \A u \in DOMAIN profiles :
        profiles[u].exists =>
            /\ profiles[u].position \in PositionLabels \cup {None}
            /\ profiles[u].mode \in ModeNames \cup {None}
            /\ profiles[u].mmr = NoneInt \/ profiles[u].mmr \in 0..15000

\* the runs that have written, and the one of them that wrote last
Wrote == { i \in Handlers : last.rows[i].stamp > 0 }
LastWriter == CHOOSE i \in Wrote : \A j \in Wrote : last.rows[j].stamp <= last.rows[i].stamp

\* the records of the user: the row the table held at first and every row
\* inserted since
RecordCount ==
    (IF last.rows[1].orig_exists THEN 1 ELSE 0)
      + Cardinality({ i \in Handlers : last.rows[i].inserted })

\* both runs have ended, and one of them read after the other had written
OneAfterTheOther ==
    /\ \A i \in Handlers : last.rows[i].pc = "done"
    /\ \E i \in Handlers : last.rows[i].seen = 1

\* C32: in every schedule of two toggle_online runs of one user the table
\* holds at most one record of the user at every point; once a run has written,
\* online is the negation of the value read by the run that wrote last; and
\* when one run read after the other had written, online ends at the value it
\* had at first
C32_LastWriteWins ==
    /\ RecordCount <= 1
    /\ profiles[RaceUser].exists <=> (RecordCount = 1)
    /\ Wrote # {} =>
          profiles[RaceUser].online = ~last.rows[LastWriter].current_online
    /\ OneAfterTheOther =>
          profiles[RaceUser].online = last.rows[1].orig_online

\* both runs read the row before either wrote, both wrote, and online ended at
\* the negation of its first value: the second tap was lost
C32_Witness ==
    /\ \A i \in Handlers :
          last.rows[i].pc = "done" /\ last.rows[i].stamp > 0 /\ last.rows[i].seen = 0
    /\ last.rows[1].orig_exists
    /\ profiles[RaceUser].online = ~last.rows[1].orig_online

====
